---- MODULE Spec2Model ----
(***************************************************************************)
(* Zammad <-> Discord bridge: the synchronisation core.                    *)
(*                                                                         *)
(* Specifications over one set of variables:                               *)
(*   SpecQueue  the per-ticket task queue (queue/index.ts) and the entry   *)
(*              points that do or do not go through it;                    *)
(*   SpecSync   webhook ingestion and dedup, article replication, message  *)
(*              forwarding and the reconciliation pass for one ticket      *)
(*              whose remote state stays open;                             *)
(*   SpecLife   the thread lifecycle (close / reopen, grace window, point  *)
(*              reads) for one ticket whose remote state changes.          *)
(*   SpecClose  the /close command beside the ticket's webhook task;       *)
(*   SpecTimer  the start-up pass and the periodic sync timer (index.ts);  *)
(*   SpecAttach the attachment loop of one replicated article;             *)
(*   SpecGate   the webhook endpoint and its signature check;              *)
(*   SpecHealth the health monitor of the remote system;                   *)
(*   SpecHeal   failing calls, then recovery with reconciliation only;     *)
(*   SpecTerminal reconciliation alone on a ticket that leaves the open    *)
(*              state;                                                     *)
(*   SpecCreate thread creation for a ticket in any state;                 *)
(*   SpecCatchUp article catch-up by reconciliation alone;                 *)
(*   SpecVis    thread visibility: role members and archiving;             *)
(*   SpecRename thread names under webhooks and reconciliation;            *)
(*   SpecPrune  retention of the synced-article ledger;                    *)
(*   SpecEgress calls to the chat platform and the egress queue;           *)
(*   SpecShutdown per-ticket tasks and a shutdown signal;                  *)
(*   SpecListing reconciliation with a listing that may fail;              *)
(*   SpecChat   the message event handler of the chat platform.            *)
(* The node process is single threaded: a handler runs without             *)
(* interruption between two awaits, so every action below is the code      *)
(* between two awaits of one handler.                                      *)
(***************************************************************************)
EXTENDS Integers, Sequences, FiniteSets, TLC

VARIABLES
    \* ---- queue/index.ts -------------------------------------------------
    ticketQueues,   \* Map<ticketId, PQueue>: ticket -> queue object id, 0 = no entry
    pqQueue,        \* queue object id -> sequence of waiting operation ids
    pqRunning,      \* queue object id -> set of operation ids it is running
    nextQueue,      \* number of PQueue objects constructed so far
    ops,            \* every operation that arrived: sequence of [kind, ticket, queued]
    opStatus,       \* operation id -> "queued" | "running" | "done" | "failed"
    startOrder,     \* operation ids in the order their bodies started
    threw,          \* history: the operations whose body threw
    \* ---- local store (db/index.ts), one ticket ---------------------------
    mapping,        \* the ticket_threads row of the ticket, or NoMapping
    ledger,         \* synced_articles: the article ids that have a row
    dedup,          \* webhook_dedup: the delivery ids that have a row
    \* ---- chat platform ---------------------------------------------------
    threads,        \* threads created for the ticket: id -> [locked, archived]
    posts,          \* article messages sent to threads, in order: [thread, article,
                    \* whole]; whole = FALSE when only the first chunks got out
    \* ---- remote helpdesk -------------------------------------------------
    remoteState,    \* the ticket's state in the remote system
    staleState,     \* the state a lagging API answer may still carry
    remoteArticles, \* the ticket's articles: id -> sender
    nChanges,       \* state changes made in the remote system so far
    \* ---- process ---------------------------------------------------------
    now,            \* wall clock, seconds
    wq,             \* the ticket's queue: tasks waiting, in order
    whTask,         \* the queue's running task, or NoTask
    proc,           \* handler positions and locals: "wh" (queue task), "recon"
    syncCycleCount, \* backfill.ts: syncCycleCount, kept modulo the catch-up interval
    \* ---- history ---------------------------------------------------------
    attempts,       \* webhook deliveries: k -> [d, outcome, mutated]
    forwarded,      \* article ids created by forwardToZammad
    nMessages,      \* thread messages of mapped agents seen so far
    cmd,            \* the /close handler in progress: [pc, map, quiet, seen]
    cmdClosed,      \* "no", or how a /close command ended: "yes" (remote update,
                    \* stored state and thread edit all done, and no webhook task
                    \* ran from its start to its end) or "other"
    \* ---- index.ts: periodic sync timer ----------------------------------
    timer,          \* [main, syncing, passes, ticks, skipped, failed]
    \* ---- sync.ts: attachments of the article being posted ----------------
    attLoop,        \* [pc, files, limits, i, totalDownloaded, attachments,
                    \*  largeFileLinks, fetched]
    \* ---- web/routes/zammad.ts --------------------------------------------
    req,            \* the last request to POST /webhooks/zammad and its answer:
                    \* [n, raw, header, hasTicket, code]
    \* ---- health monitor (services/search.ts, from line 95) ----------------
    calm,           \* the environment [on, fresh]: while `on`, no call to the
                    \* remote system or the chat platform fails and the remote
                    \* state stays as it is; while `fresh`, no answer of the
                    \* remote API is stale
    ren,            \* thread name for one ticket: the remote and stored
                    \* title, the thread's name, rename calls made, and the
                    \* two handlers' positions and locals
    kept,           \* the synced-article ledger with row ages: [day, articles, synced_at, posted]
    egress,         \* calls to the chat platform: [waiting, running, direct]
    shut,           \* shutdown: [phase, db, task] (index.ts: shutdown; db/index.ts: closeDb)
    listing,        \* the last listing of a pass: [failed, snap] (history)
    chat,           \* chat messages: [pending, handled, forwards, written, toPost, arrived]
    vis,            \* thread visibility for one ticket: remote and stored
                    \* state, the thread's lock, archive flag and role member,
                    \* member operations in flight, and the running handler
    health          \* [failureCount, alertSent, checking, presence] of the code;
                    \* the callbacks in flight [probing, alerting, recovering];
                    \* the remote system [up, outage]; history [ticks,
                    \* failedRun, failedIn, decided, alerts, recoveries]

qvars == <<ticketQueues, pqQueue, pqRunning, nextQueue, ops, opStatus, startOrder, threw>>

dbvars == <<mapping, ledger, dedup>>

chatvars == <<threads, posts>>

remotevars == <<remoteState, staleState, remoteArticles, nChanges>>

procvars == <<wq, whTask, proc, syncCycleCount>>

histvars == <<attempts, forwarded, nMessages>>

corevars == <<dbvars, chatvars, remotevars, now, procvars, histvars>>

cmdvars == <<cmd, cmdClosed>>

\* The records of the later sub-models.
latevars == <<ren, kept, egress, shut, listing, chat>>

sidevars == <<timer, attLoop, req, health, calm, vis, latevars>>

xvars == <<cmdvars, sidevars>>

\* Everything but the periodic sync timer.
besidesTimer == <<qvars, corevars, cmdvars, attLoop, req, health, calm, vis, latevars>>

\* Everything but the attachment loop.
besidesAtt == <<qvars, corevars, cmdvars, timer, req, health, calm, vis, latevars>>

\* Everything but the health monitor.
besidesHealth == <<qvars, corevars, cmdvars, timer, attLoop, req, calm, vis, latevars>>

\* Everything but the thread visibility record.
besidesVis == <<qvars, corevars, cmdvars, timer, attLoop, req, health, calm, latevars>>

\* Everything but the environment switch.
besidesCalm == <<qvars, corevars, cmdvars, timer, attLoop, req, health, vis, latevars>>

\* Everything but the records of the later sub-models.
early == <<qvars, corevars, cmdvars, timer, attLoop, req, health, calm, vis>>

\* Everything but the thread name record.
besidesRen == <<early, kept, egress, shut, listing, chat>>

\* Everything but the aged ledger record.
besidesKept == <<early, ren, egress, shut, listing, chat>>

\* Everything but the egress record.
besidesEgress == <<early, ren, kept, shut, listing, chat>>

\* Everything but the shutdown record.
besidesShut == <<early, ren, kept, egress, listing, chat>>

\* Everything but the listing record.
besidesListing == <<early, ren, kept, egress, shut, chat>>

\* Everything but the chat message record.
besidesChat == <<early, ren, kept, egress, shut, listing>>

mvars == <<corevars, xvars>>

vars == <<qvars, mvars>>

\* ---------------------------------------------------------------------------
\* Bounds of the model
\* ---------------------------------------------------------------------------
MaxOps == 3

MaxDeliveries == 2

MaxArticles == 2

MaxMessages == 1

MaxPosts == 2

MaxChanges == 2

MaxTime == 120

Tickets == {1, 2}


\* ---------------------------------------------------------------------------
\* Ticket states (util/states.ts, zammad.ts)
\* ---------------------------------------------------------------------------

States == {"open", "waiting for reply", "closed"}

CLOSED_STATES == {"closed", "closed (locked)", "closed (locked until)"}

HIDDEN_STATES == {"pending close", "waiting for reply"}

isClosedState(state) == state \in CLOSED_STATES

isHiddenState(state) == state \in HIDDEN_STATES

\* getAllOpenTickets: a ticket is listed unless its state is one of these.
ListClosedStates == {"closed", "closed (locked)", "merged", "removed"}

\* ---------------------------------------------------------------------------
\* Local store (db/index.ts)
\* ---------------------------------------------------------------------------

NoMapping == [thread_id |-> 0, state |-> "none", created_at |-> 0, updated_at |-> 0]

\* upsertTicketThread: INSERT ... ON CONFLICT(ticket_id) DO UPDATE SET thread_id,
\* state, updated_at (created_at is kept on conflict).
upsertTicketThread(threadId, state) ==
    IF mapping = NoMapping
        THEN [thread_id |-> threadId, state |-> state, created_at |-> now, updated_at |-> now]
        ELSE [mapping EXCEPT !.thread_id = threadId, !.state = state, !.updated_at = now]

\* updateThreadState on row m: UPDATE ... SET state, updated_at = now (no row, no change).
updateThreadState(m, state) ==
    IF m = NoMapping THEN m ELSE [m EXCEPT !.state = state, !.updated_at = now]

isArticleSyncedNever(articleId, rows) == FALSE

isArticleSynced(articleId, rows) == articleId \in rows

\* markArticleSynced: INSERT OR IGNORE.
markArticleSynced(articleId, rows) == rows \cup {articleId}

isDeliveryProcessedNever(deliveryId) == FALSE

isDeliveryProcessed(deliveryId) == deliveryId \in dedup

markDeliveryProcessed(deliveryId) == dedup \cup {deliveryId}

\* unmarkDeliveryProcessed, mutated: the row is left in place.
unmarkDeliveryProcessedNoop(deliveryId) == dedup

unmarkDeliveryProcessed(deliveryId) == dedup \ {deliveryId}

\* ---------------------------------------------------------------------------
\* Handlers: shared pieces
\* ---------------------------------------------------------------------------

\* X-Hub delivery ids are opaque strings: the n-th distinct one is called n.
DeliveryIds == 1..MaxDeliveries

NoTask == [kind |-> "none", d |-> 0, k |-> 0]

Procs == {"wh", "recon"}

IdleProc ==
    [pc |-> "idle", st |-> "none", map |-> NoMapping, arts |-> <<>>, cur |-> 0,
     ret |-> "idle", listed |-> FALSE, fresh |-> "none", graceSkip |-> FALSE,
     clean |-> FALSE, curWasSynced |-> FALSE]

\* const ARTICLE_CATCHUP_INTERVAL = 10
ARTICLE_CATCHUP_INTERVAL == 10

\* An answer of the remote API for the ticket's state: the current state, or the
\* one before it when the answer is stale.
ApiStates == IF calm.fresh THEN {remoteState} ELSE {remoteState, staleState}

\* A call to the remote system or to the chat platform may throw, unless the
\* collaborators are healthy.
Throws == IF calm.on THEN {} ELSE {"throw"}

\* The attempt record of the running webhook task gets `mutated` set when the
\* task changes the thread, the mapping or the article ledger.
Mutated(p) ==
    IF p = "wh" /\ whTask.kind = "webhook"
        THEN [attempts EXCEPT ![whTask.k].mutated = TRUE]
        ELSE attempts

\* The running queue task settles with `outcome`; the queue is free again.
\* handleWebhook: when processWebhook threw, the delivery id is unmarked.
Settle(outcome, att) ==
    /\ whTask' = NoTask
    /\ proc' = [proc EXCEPT !["wh"] = IdleProc]
    /\ IF whTask.kind = "webhook"
         THEN /\ attempts' = [att EXCEPT ![whTask.k].outcome = outcome]
              /\ dedup' = IF outcome = "failed" THEN unmarkDeliveryProcessed(whTask.d) ELSE dedup
         ELSE /\ attempts' = att
              /\ dedup' = dedup

\* index.ts main() before step 6: no pass was started, `syncing` is not
\* declared yet (it starts as false), no timer exists.
InitTimer ==
    [main |-> "boot", syncing |-> FALSE, passes |-> 0,
     ticks |-> 0, skipped |-> 0, failed |-> 0]

\* No article is being posted.
IdleAtt ==
    [pc |-> "idle", files |-> <<>>,
     limits |-> [perFileBytes |-> 0, totalBytes |-> 0, maxCount |-> 0,
                 downloadCapBytes |-> 0],
     i |-> 0, totalDownloaded |-> 0, attachments |-> <<>>,
     largeFileLinks |-> <<>>, fetched |-> {}]

\* A digest or signature string: its length, and the key and message it is
\* the HMAC of.
NoSig == [len |-> 0, key |-> "", msg |-> ""]

\* No request was handled yet.
NoRequest ==
    [n |-> 0, raw |-> "", header |-> [kind |-> "none", sig |-> NoSig],
     hasTicket |-> FALSE, code |-> 0]

MaxOutages == 2

Outages == 1..MaxOutages

\* startHealthCheck was called: the module variables have their initial values,
\* presence is "ok", the remote system is up and no callback runs.
InitHealth ==
    [failureCount |-> 0, alertSent |-> FALSE, checking |-> FALSE, presence |-> "ok",
     probing |-> FALSE,
     alerting |-> [o \in Outages |-> 0], recovering |-> [o \in Outages |-> 0],
     up |-> TRUE, outage |-> 0,
     ticks |-> 0, failedRun |-> 0, failedIn |-> 0,
     decided |-> [o \in Outages |-> 0],
     alerts |-> [o \in Outages |-> 0], recoveries |-> [o \in Outages |-> 0]]

\* Titles are short words over two letters; a thread name holds MaxNameLen
\* characters (100 in the code).
MaxTitleLen == 3

MaxNameLen == 3

Letters == {"a", "b"}

Titles == UNION {[1..n -> Letters] : n \in 1..MaxTitleLen}

\* truncate(str, max)
truncate(str, max) ==
    IF Len(str) <= max THEN str ELSE Append(SubSeq(str, 1, max - 1), "...")

\* buildThreadName without an owner label: "#<number> <title>", truncated.
buildThreadName(title) == truncate(<<"#">> \o title, MaxNameLen)

FirstTitle == <<"a">>

IdleRename == [pc |-> "idle", title |-> <<>>, name |-> <<>>]

\* The ticket is tracked and its thread carries the name built from its title;
\* no handler runs.
InitRen ==
    [title |-> FirstTitle, stored |-> FirstTitle, name |-> buildThreadName(FirstTitle),
     changes |-> 0, calls |-> 0, h |-> [p \in {"wh", "recon"} |-> IdleRename]]

\* No message was written and no article waits to be replicated.
InitChat ==
    [pending |-> <<>>, handled |-> {}, forwards |-> {}, written |-> 0,
     toPost |-> 0, arrived |-> 0]

\* No pass has fetched the listing yet.
InitListing == [failed |-> FALSE, snap |-> <<>>]

\* The bot is fully started: the store is open and no per-ticket task runs.
InitShut ==
    [phase |-> "up", db |-> "open", task |-> [t \in Tickets |-> "idle"]]

\* discordQueue is empty and no call to the chat platform is in flight.
InitEgress == [waiting |-> 0, running |-> 0, direct |-> 0]

\* No row of synced_articles for an article.
NoRow == -1

\* A tracked ticket without articles on day 0: no ledger row, nothing posted.
InitPrune ==
    [day |-> 0, articles |-> 0,
     synced_at |-> [a \in 1..MaxArticles |-> NoRow],
     posted |-> [a \in 1..MaxArticles |-> 0]]

\* No mapping and no thread yet for the ticket, which is open; no handler runs
\* and no member operation is in flight.
InitVis ==
    [remote |-> "open", stored |-> "none", prev |-> "none", updated_at |-> 0,
     locked |-> FALSE, archived |-> FALSE, member |-> FALSE,
     adds |-> 0, removes |-> 0,
     h |-> "none", pc |-> "idle", old |-> "none", new |-> "none", listed |-> FALSE,
     n |-> 0]

InitSide ==
    /\ timer = InitTimer
    /\ attLoop = IdleAtt
    /\ req = NoRequest
    /\ health = InitHealth
    /\ vis = InitVis
    /\ ren = InitRen
    /\ chat = InitChat
    /\ listing = InitListing
    /\ shut = InitShut
    /\ egress = InitEgress
    /\ kept = InitPrune

\* The collaborators may fail and their answers may lag.
Troubled == [on |-> FALSE, fresh |-> FALSE]

\* The collaborators may fail, but the remote API answers with the current
\* state.
Faulty == [on |-> FALSE, fresh |-> TRUE]

\* No call fails and the remote API answers with the current state.
Healthy == [on |-> TRUE, fresh |-> TRUE]

InitEnv(env) ==
    /\ InitSide
    /\ calm = env
    /\ mapping = NoMapping
    /\ ledger = {}
    /\ dedup = {}
    /\ threads = <<>>
    /\ posts = <<>>
    /\ remoteState = "open"
    /\ staleState = "open"
    /\ remoteArticles = <<>>
    /\ now = 0
    /\ wq = <<>>
    /\ whTask = NoTask
    /\ proc = [p \in Procs |-> IdleProc]
    /\ syncCycleCount = 1
    /\ attempts = <<>>
    /\ forwarded = {}
    /\ nMessages = 0
    /\ nChanges = 0
    /\ cmd = [pc |-> "idle", map |-> NoMapping, quiet |-> FALSE, seen |-> 0]
    /\ cmdClosed = "no"

InitMain == InitEnv(Troubled)


\* ---------------------------------------------------------------------------
\* Article replication, remote -> thread (sync.ts: syncAllUnsyncedArticles)
\* ---------------------------------------------------------------------------

RECURSIVE SortById(_)
\* articles.sort((a, b) => a.id - b.id)
SortById(ids) ==
    IF ids = {} THEN <<>>
    ELSE LET m == CHOOSE x \in ids : \A y \in ids : x <= y
         IN  <<m>> \o SortById(ids \ {m})

RECURSIVE Advance(_, _)
\* The loop over the sorted articles up to its next await: an article with a
\* ledger row is skipped, a System article is ledgered without a post, and the
\* first other article is the one to render and send (cur; 0 when none is left).
Advance(list, rows) ==
    IF list = <<>> THEN [ledger |-> rows, cur |-> 0, rest |-> <<>>]
    ELSE LET a == Head(list)
         IN  IF isArticleSynced(a, rows) THEN Advance(Tail(list), rows)
             ELSE IF remoteArticles[a] = "System"
                    THEN Advance(Tail(list), markArticleSynced(a, rows))
                    ELSE [ledger |-> rows, cur |-> a, rest |-> Tail(list)]

\* syncAllUnsyncedArticles returns (pr: the locals of handler p when it does):
\* the webhook task is done, the reconciliation pass goes on with the ticket.
EndSync(p, pr, att) ==
    IF p = "wh"
        THEN Settle("ok", att)
        ELSE /\ proc' = [proc EXCEPT ![p] = [pr EXCEPT !.pc = pr.ret, !.cur = 0, !.arts = <<>>]]
             /\ attempts' = att
             /\ UNCHANGED <<whTask, dedup>>

\* An exception leaves syncAllUnsyncedArticles: it fails the webhook task;
\* syncAllTickets catches it and goes on with the ticket.
ThrowSync(p, pr, att) ==
    IF p = "wh"
        THEN Settle("failed", att)
        ELSE /\ proc' = [proc EXCEPT ![p] = [pr EXCEPT !.pc = pr.ret, !.cur = 0, !.arts = <<>>]]
             /\ attempts' = att
             /\ UNCHANGED <<whTask, dedup>>

\* The loop reached its next await (res: what Advance found) or its end.
AfterAdvance(p, pr, res, att) ==
    /\ ledger' = res.ledger
    /\ IF res.cur # 0
         THEN /\ proc' = [proc EXCEPT ![p] =
                    [pr EXCEPT !.pc = "send", !.cur = res.cur, !.arts = res.rest,
                               !.curWasSynced = res.cur \in res.ledger]]
              /\ attempts' = att
              /\ UNCHANGED <<whTask, dedup>>
         ELSE EndSync(p, pr, att)

\* getArticles answers (or throws: logged, return), the articles are sorted by id
\* and the loop runs to its first await.
SyncFetch(p) ==
    /\ proc[p].pc = "fetch"
    /\ \E r \in {"ok"} \cup Throws :
        LET ids == 1..Len(remoteArticles)
            res == Advance(SortById(ids), ledger)
            pr  == [proc[p] EXCEPT !.clean = (r = "ok" /\ ids # {} /\ ids \subseteq ledger)]
        IN  IF r = "throw"
              THEN EndSync(p, pr, attempts) /\ UNCHANGED ledger
              ELSE AfterAdvance(p, pr, res,
                                IF res.ledger # ledger THEN Mutated(p) ELSE attempts)
    /\ UNCHANGED <<qvars, xvars, mapping, chatvars, remotevars, now, wq, syncCycleCount, forwarded, nMessages>>

\* How sendToThread can end (see SyncSend).
SendOutcomes == IF calm.on THEN {"ok"} ELSE {"ok", "null", "throw", "partial"}

\* The rows of synced_articles after sendToThread settled, mutated: the article
\* is marked whether a message id came back or not.
SyncedAfterSendAlways(a, rows, sent) == markArticleSynced(a, rows)

\* The rows of synced_articles after sendToThread settled for article a:
\* markArticleSynced is reached only with a message id.
SyncedAfterSend(a, rows, sent) == IF sent THEN markArticleSynced(a, rows) ELSE rows

\* sendToThread settles for the article being sent.  "ok": the message is in the
\* thread and its id is returned, the article is ledgered and the loop goes on.
\* "null": the thread could not be fetched, nothing was sent; the loop breaks.
\* "throw": the send threw before anything was sent.  "partial": the content
\* needed several chunks, the first was sent and a later one threw.
SyncSend(p) ==
    /\ proc[p].pc = "send"
    /\ \E r \in SendOutcomes :
        LET pr == proc[p]
            a  == pr.cur
            post == [thread |-> pr.map.thread_id, article |-> a, whole |-> r = "ok"]
        IN  CASE r = "ok" ->
                    /\ Len(posts) < MaxPosts
                    /\ posts' = Append(posts, post)
                    /\ AfterAdvance(p, pr, Advance(pr.arts, SyncedAfterSend(a, ledger, TRUE)),
                                    Mutated(p))
              [] r = "null" ->
                    /\ EndSync(p, pr, attempts)
                    /\ ledger' = SyncedAfterSend(a, ledger, FALSE)
                    /\ UNCHANGED posts
              [] r = "throw" ->
                    /\ ThrowSync(p, pr, attempts)
                    /\ ledger' = SyncedAfterSend(a, ledger, FALSE)
                    /\ UNCHANGED posts
              [] r = "partial" ->
                    /\ Len(posts) < MaxPosts
                    /\ posts' = Append(posts, post)
                    /\ ThrowSync(p, pr, Mutated(p))
                    /\ ledger' = SyncedAfterSend(a, ledger, FALSE)
    /\ UNCHANGED <<qvars, xvars, mapping, threads, remotevars, now, wq, syncCycleCount, forwarded, nMessages>>

\* ---------------------------------------------------------------------------
\* Thread creation (threads.ts: createTicketThread), from either handler
\* ---------------------------------------------------------------------------

\* The header message is sent, the thread is started from it and the mapping is
\* upserted; or one of the platform calls throws (nothing is stored).
CreateThread(p) ==
    /\ proc[p].pc = "create"
    /\ \E r \in {"ok"} \cup Throws :
        LET pr == proc[p]
            id == Len(threads) + 1
            row == upsertTicketThread(id, pr.st)
        IN  IF r = "ok"
              THEN /\ threads' = Append(threads, [locked |-> FALSE, archived |-> FALSE])
                   /\ mapping' = row
                   /\ attempts' = Mutated(p)
                   /\ proc' = [proc EXCEPT ![p] = [pr EXCEPT
                          !.map = row,
                          !.pc = IF p = "recon" THEN "closeLoop"
                                 ELSE IF isClosedState(pr.st) THEN "closeNew"
                                 ELSE IF isHiddenState(pr.st) THEN "hideNew"
                                 ELSE "state"]]
                   /\ UNCHANGED <<whTask, dedup>>
              ELSE /\ UNCHANGED <<threads, mapping>>
                   /\ IF p = "wh"
                        THEN Settle("failed", attempts)
                        ELSE /\ proc' = [proc EXCEPT ![p].pc = "closeLoop"]
                             /\ UNCHANGED <<whTask, dedup, attempts>>
    /\ UNCHANGED <<qvars, xvars, ledger, posts, remotevars, now, wq, syncCycleCount, forwarded, nMessages>>

\* ---------------------------------------------------------------------------
\* Webhook ingestion (routes/zammad.ts, sync.ts: handleWebhook, processWebhook)
\* ---------------------------------------------------------------------------

\* The delivery ids seen so far, and the name of the next new one.
SeenIds == {attempts[k].d : k \in DOMAIN attempts}

FreshId == Cardinality(SeenIds) + 1

\* A signed webhook request with delivery id d arrives: 202, and handleWebhook is
\* enqueued on the ticket's queue.
Deliver(d) ==
    /\ Len(attempts) < MaxDeliveries
    /\ d \in DeliveryIds
    /\ attempts' = Append(attempts, [d |-> d, outcome |-> "pending", mutated |-> FALSE])
    /\ wq' = Append(wq, [kind |-> "webhook", d |-> d, k |-> Len(attempts) + 1])
    /\ UNCHANGED <<qvars, xvars, dbvars, chatvars, remotevars, now, whTask, proc, syncCycleCount,
                   forwarded, nMessages>>

\* The queue starts its next task.  handleWebhook: a delivery id that has a row
\* is a duplicate and the task returns at once; otherwise the id is marked
\* before processWebhook starts.  forwardToZammad: starts.
StartTask ==
    /\ whTask = NoTask
    /\ wq # <<>>
    /\ LET task == Head(wq)
       IN  /\ wq' = Tail(wq)
           /\ IF task.kind = "webhook"
                THEN IF isDeliveryProcessed(task.d)
                       THEN /\ attempts' = [attempts EXCEPT ![task.k].outcome = "skipped"]
                            /\ UNCHANGED <<whTask, proc, dedup>>
                       ELSE /\ dedup' = markDeliveryProcessed(task.d)
                            /\ whTask' = task
                            /\ proc' = [proc EXCEPT !["wh"] =
                                   [IdleProc EXCEPT !.pc = "getTicket", !.ret = "done"]]
                            /\ UNCHANGED attempts
                ELSE /\ whTask' = task
                     /\ proc' = [proc EXCEPT !["wh"] = [IdleProc EXCEPT !.pc = "fwdCreate"]]
                     /\ UNCHANGED <<attempts, dedup>>
    /\ UNCHANGED <<qvars, xvars, mapping, ledger, chatvars, remotevars, now, syncCycleCount,
                   forwarded, nMessages>>

\* processWebhook: getTicket answers (a throw fails the task), then the mapping
\* is read; without one the thread is created first.
WebhookGetTicket ==
    /\ proc["wh"].pc = "getTicket"
    /\ \E r \in ApiStates \cup Throws :
        IF r = "throw"
          THEN Settle("failed", attempts)
          ELSE /\ proc' = [proc EXCEPT !["wh"] = [@ EXCEPT
                      !.st = r, !.map = mapping,
                      !.pc = IF mapping = NoMapping THEN "create" ELSE "state"]]
               /\ UNCHANGED <<whTask, dedup, attempts>>
    /\ UNCHANGED <<qvars, xvars, mapping, ledger, chatvars, remotevars, now, wq, syncCycleCount,
                   forwarded, nMessages>>

\* processWebhook, after the header update: the state read is compared with the
\* state of the mapping read earlier; a difference is stored at once and decides
\* which thread effect follows.
WebhookState ==
    /\ proc["wh"].pc = "state"
    /\ LET pr == proc["wh"]
           old == pr.map.state
           new == pr.st
       IN  IF new # old
             THEN /\ mapping' = updateThreadState(mapping, new)
                  /\ attempts' = Mutated("wh")
                  /\ proc' = [proc EXCEPT !["wh"].pc =
                         IF isClosedState(new) THEN "close"
                         ELSE IF isClosedState(old) THEN "verify"
                         ELSE IF isHiddenState(new) # isHiddenState(old) THEN "hidden"
                         ELSE "fetch"]
             ELSE /\ proc' = [proc EXCEPT !["wh"].pc = "fetch"]
                  /\ UNCHANGED <<mapping, attempts>>
    /\ UNCHANGED <<qvars, xvars, ledger, dedup, chatvars, remotevars, now, wq, whTask, syncCycleCount,
                   forwarded, nMessages>>

\* Where a handler goes on once the closed -> non-closed branch is over: the
\* hidden-state block when the new state is hidden, else the next part.
AfterReopenBranch(p, pr) ==
    IF isHiddenState(pr.st) THEN "hidden"
    ELSE IF p = "wh" THEN "fetch" ELSE "closeLoop"

\* How a thread edit of closeTicketThread / reopenTicketThread can end: the edit
\* is made; the thread cannot be fetched and the function returns without an
\* edit; or a platform call throws.
EditOutcomes == IF calm.on THEN {"ok"} ELSE {"ok", "absent", "throw"}

\* closeTicketThread (threads.ts): the thread is locked and archived.
closeTicketThread(threadId, r) ==
    IF r = "ok" THEN [threads EXCEPT ![threadId] = [locked |-> TRUE, archived |-> TRUE]]
    ELSE threads

\* reopenTicketThread (threads.ts): the thread is unlocked and unarchived.
reopenTicketThread(threadId, r) ==
    IF r = "ok" THEN [threads EXCEPT ![threadId] = [locked |-> FALSE, archived |-> FALSE]]
    ELSE threads

\* thread.edit({ archived }) on a thread, when its archived flag differs.
SetArchived(threadId, flag) ==
    [threads EXCEPT ![threadId].archived = flag]

\* processWebhook: closeTicketThread for a thread just created for a closed
\* ticket ("closeNew") or for a change to a closed state ("close").  A throw is
\* not caught: the task fails.
WebhookClose ==
    /\ proc["wh"].pc \in {"closeNew", "close"}
    /\ \E r \in EditOutcomes :
        LET pr == proc["wh"]
        IN  IF r # "throw"
              THEN /\ threads' = closeTicketThread(pr.map.thread_id, r)
                   /\ attempts' = IF r = "ok" THEN Mutated("wh") ELSE attempts
                   /\ proc' = [proc EXCEPT !["wh"].pc =
                          IF pr.pc = "closeNew" THEN "state" ELSE "fetch"]
                   /\ UNCHANGED <<whTask, dedup>>
              ELSE /\ Settle("failed", attempts)
                   /\ UNCHANGED threads
    /\ UNCHANGED <<qvars, xvars, mapping, ledger, posts, remotevars, now, wq, syncCycleCount,
                   forwarded, nMessages>>

\* processWebhook: a thread just created for a ticket in a hidden state gets its
\* role members removed and, for "waiting for reply", is archived.
WebhookHideNew ==
    /\ proc["wh"].pc = "hideNew"
    /\ \E r \in {"ok"} \cup Throws :
        LET pr == proc["wh"]
        IN  IF r = "ok"
              THEN /\ threads' = IF pr.st = "waiting for reply"
                                   THEN SetArchived(pr.map.thread_id, TRUE)
                                   ELSE threads
                   /\ attempts' = Mutated("wh")
                   /\ proc' = [proc EXCEPT !["wh"].pc = "state"]
                   /\ UNCHANGED <<whTask, dedup>>
              ELSE /\ Settle("failed", attempts)
                   /\ UNCHANGED threads
    /\ UNCHANGED <<qvars, xvars, mapping, ledger, posts, remotevars, now, wq, syncCycleCount,
                   forwarded, nMessages>>

ReopenAfterVerifyAlways(freshState) == TRUE

\* if (isClosedState(freshState)) { updateThreadState } else { reopenTicketThread }
ReopenAfterVerify(freshState) == ~isClosedState(freshState)

\* The point read before a reopen (processWebhook and syncAllTickets alike):
\* getTicket answers.  A closed answer is stored and nothing is reopened; any
\* other answer leads to reopenTicketThread; a throw is caught and logged.
Verify(p) ==
    /\ proc[p].pc = "verify"
    /\ \E r \in ApiStates \cup Throws :
        LET pr == proc[p]
        IN  IF r = "throw"
              THEN /\ proc' = [proc EXCEPT ![p].pc = AfterReopenBranch(p, pr)]
                   /\ UNCHANGED <<mapping, attempts>>
              ELSE IF ReopenAfterVerify(r)
                     THEN /\ proc' = [proc EXCEPT ![p] = [pr EXCEPT !.pc = "reopen", !.fresh = r]]
                          /\ UNCHANGED <<mapping, attempts>>
                     ELSE /\ mapping' = updateThreadState(mapping, r)
                          /\ attempts' = Mutated(p)
                          /\ proc' = [proc EXCEPT ![p] =
                                 [pr EXCEPT !.pc = AfterReopenBranch(p, pr), !.fresh = r]]
    /\ UNCHANGED <<qvars, xvars, ledger, dedup, chatvars, remotevars, now, wq, whTask, syncCycleCount,
                   forwarded, nMessages>>

\* reopenTicketThread settles; a throw is caught by the try around the point
\* read.  syncAllTickets then catches up the articles of the reopened ticket.
Reopen(p) ==
    /\ proc[p].pc = "reopen"
    /\ \E r \in EditOutcomes :
        LET pr == proc[p]
        IN  IF r # "throw"
              THEN /\ threads' = reopenTicketThread(pr.map.thread_id, r)
                   /\ attempts' = IF r = "ok" THEN Mutated(p) ELSE attempts
                   /\ proc' = [proc EXCEPT ![p] =
                          IF p = "recon"
                            THEN [pr EXCEPT !.pc = "fetch", !.ret = AfterReopenBranch(p, pr)]
                            ELSE [pr EXCEPT !.pc = AfterReopenBranch(p, pr)]]
              ELSE /\ proc' = [proc EXCEPT ![p].pc = AfterReopenBranch(p, pr)]
                   /\ UNCHANGED <<threads, attempts>>
    /\ UNCHANGED <<qvars, xvars, dbvars, posts, remotevars, now, wq, whTask, syncCycleCount,
                   forwarded, nMessages>>

\* The hidden-state block (processWebhook and syncAllTickets alike).  Into a
\* hidden state: role members are removed and a "waiting for reply" thread is
\* archived.  Out of a hidden state (and not to a closed one): the thread is
\* unarchived and the members are added again.  processWebhook does not catch a
\* throw here, syncAllTickets does.
Hidden(p) ==
    /\ proc[p].pc = "hidden"
    /\ \E r \in {"ok"} \cup Throws :
        LET pr == proc[p]
            th == pr.map.thread_id
            old == pr.map.state
            next == IF p = "wh" THEN "fetch" ELSE "closeLoop"
        IN  IF r = "ok"
              THEN /\ threads' =
                          IF isHiddenState(pr.st) /\ ~isHiddenState(old)
                            THEN IF pr.st = "waiting for reply"
                                   THEN SetArchived(th, TRUE) ELSE threads
                          ELSE IF isHiddenState(old) /\ ~isHiddenState(pr.st)
                                  /\ ~isClosedState(pr.st)
                            THEN SetArchived(th, FALSE)
                          ELSE threads
                   /\ attempts' = Mutated(p)
                   /\ proc' = [proc EXCEPT ![p].pc = next]
                   /\ UNCHANGED <<whTask, dedup>>
              ELSE /\ UNCHANGED threads
                   /\ IF p = "wh"
                        THEN Settle("failed", attempts)
                        ELSE /\ proc' = [proc EXCEPT ![p].pc = next]
                             /\ UNCHANGED <<whTask, dedup, attempts>>
    /\ UNCHANGED <<qvars, xvars, mapping, ledger, posts, remotevars, now, wq, syncCycleCount,
                   forwarded, nMessages>>

\* ---------------------------------------------------------------------------
\* Thread message -> remote article (events/messageCreate.ts)
\* ---------------------------------------------------------------------------

\* A mapped agent writes into the ticket's thread: forwardToZammad is enqueued on
\* the ticket's queue.
AgentMessage ==
    /\ mapping # NoMapping
    /\ nMessages < MaxMessages
    /\ nMessages' = nMessages + 1
    /\ wq' = Append(wq, [kind |-> "forward", d |-> 0, k |-> 0])
    /\ UNCHANGED <<qvars, xvars, dbvars, chatvars, remotevars, now, whTask, proc, syncCycleCount,
                   attempts, forwarded>>

\* forwardToZammad: createArticle reaches the remote system, which creates the
\* article (its answer is still under way); or the forward throws before that,
\* which onMessageCreate catches.
ForwardCreate ==
    /\ proc["wh"].pc = "fwdCreate"
    /\ \E r \in {"ok", "throw"} :
        IF r = "ok"
          THEN /\ Len(remoteArticles) < MaxArticles
               /\ remoteArticles' = Append(remoteArticles, "Agent")
               /\ forwarded' = forwarded \cup {Len(remoteArticles) + 1}
               /\ proc' = [proc EXCEPT !["wh"] =
                      [@ EXCEPT !.pc = "fwdMark", !.cur = Len(remoteArticles) + 1]]
               /\ UNCHANGED <<whTask, dedup, attempts>>
          ELSE /\ Settle("ok", attempts)
               /\ UNCHANGED <<remoteArticles, forwarded>>
    /\ UNCHANGED <<qvars, xvars, mapping, ledger, chatvars, remoteState, staleState, nChanges, now, wq,
                   syncCycleCount, nMessages>>

\* forwardToZammad: createArticle's answer arrived; the article id is ledgered
\* ("discord_to_zammad") so that its echo is recognised.
ForwardMark ==
    /\ proc["wh"].pc = "fwdMark"
    /\ ledger' = markArticleSynced(proc["wh"].cur, ledger)
    /\ Settle("ok", attempts)
    /\ UNCHANGED <<qvars, xvars, mapping, chatvars, remotevars, now, wq, syncCycleCount,
                   forwarded, nMessages>>

\* ---------------------------------------------------------------------------
\* Reconciliation pass (services/backfill.ts: syncAllTickets)
\* ---------------------------------------------------------------------------

\* if (ageSeconds < 120): the reopen grace window, seconds
ReopenGraceSeconds == 120

\* if (createAgeMinutes < 2 || updateAgeMinutes < 2): the close grace window, seconds
CloseGraceSeconds == 120

\* if (createAgeMinutes < 2 || updateAgeMinutes < 2) continue, with the updated_at
\* test left out
InCloseGraceCreatedOnly(createAge, updateAge) == createAge < CloseGraceSeconds

\* if (createAgeMinutes < 2 || updateAgeMinutes < 2) continue
InCloseGrace(createAge, updateAge) ==
    createAge < CloseGraceSeconds \/ updateAge < CloseGraceSeconds

InReopenGraceNever(ageSeconds) == FALSE

InReopenGrace(ageSeconds) == ageSeconds < ReopenGraceSeconds

\* The pass is over: syncCycleCount++ (the count is only used modulo the
\* catch-up interval).
EndPass ==
    /\ proc' = [proc EXCEPT !["recon"] = IdleProc]
    /\ syncCycleCount' = (syncCycleCount + 1) % ARTICLE_CATCHUP_INTERVAL

\* The timer fires with no pass running: getAllOpenTickets answers with the
\* tickets whose listed state is not closed, merged or removed.
ReconStart ==
    /\ proc["recon"].pc = "idle"
    /\ \E r \in ApiStates :
        LET isListed == r \notin ListClosedStates
        IN  proc' = [proc EXCEPT !["recon"] = [IdleProc EXCEPT
                !.pc = IF isListed THEN "ticket" ELSE "closeLoop",
                !.st = r, !.listed = isListed]]
    /\ UNCHANGED <<qvars, xvars, dbvars, chatvars, remotevars, now, wq, whTask, syncCycleCount, histvars>>

\* The listing comes in pages; the ticket is on page `at`.
MaxPages == 2

Pages == 1..MaxPages

RECURSIVE FetchPagesLenient(_, _, _, _, _)
\* A listing that keeps what it has when a page throws.
FetchPagesLenient(outcomes, at, state, page, all) ==
    IF page > MaxPages \/ outcomes[page] = "throw" THEN all
    ELSE FetchPagesLenient(outcomes, at, state, page + 1,
                           IF page = at /\ state \notin ListClosedStates
                             THEN "listed" ELSE all)

RECURSIVE FetchPages(_, _, _, _, _)
\* getAllOpenTickets from page `page` on, `all` being what the pages before
\* it gave: a page that throws ends the listing with the throw; the ticket
\* is listed when its page is fetched and its state is not one the listing
\* drops.
FetchPages(outcomes, at, state, page, all) ==
    IF page > MaxPages THEN all
    ELSE IF outcomes[page] = "throw" THEN "throw"
    ELSE FetchPages(outcomes, at, state, page + 1,
                    IF page = at /\ state \notin ListClosedStates
                      THEN "listed" ELSE all)

\* syncAllTickets from its start: getAllOpenTickets page by page.  When a page
\* throws the pass returns at once; otherwise it goes on as in ReconStart.
\* listing.failed tells that a page threw, and listing.snap keeps what the
\* store, the threads and the cycle counter were then.
ReconList ==
    /\ proc["recon"].pc = "idle"
    /\ \E r \in ApiStates, at \in Pages, outcomes \in [Pages -> {"ok"} \cup Throws] :
        LET res == FetchPages(outcomes, at, r, 1, "unlisted")
            anyThrow == \E page \in Pages : outcomes[page] = "throw"
        IN  /\ listing' = IF anyThrow
                            THEN [failed |-> TRUE,
                                  snap |-> <<mapping, threads, syncCycleCount>>]
                            ELSE InitListing
            /\ IF res = "throw"
                 THEN UNCHANGED proc
                 ELSE proc' = [proc EXCEPT !["recon"] = [IdleProc EXCEPT
                          !.pc = IF res = "listed" THEN "ticket" ELSE "closeLoop",
                          !.st = r, !.listed = (res = "listed")]]
    /\ UNCHANGED <<qvars, cmdvars, timer, attLoop, req, health, calm, vis, ren, kept,
                   egress, shut, chat, dbvars, chatvars, remotevars, now, wq, whTask,
                   syncCycleCount, histvars>>

IsCatchUpCycleNever(count) == FALSE

\* if (syncCycleCount % ARTICLE_CATCHUP_INTERVAL === 0)
IsCatchUpCycle(count) == count % ARTICLE_CATCHUP_INTERVAL = 0

\* A listed ticket: buildTicketInfo, then the mapping is read.  Without one the
\* thread is created; with one the header is refreshed and, on every
\* ARTICLE_CATCHUP_INTERVAL-th cycle, the articles are caught up.
ReconTicket ==
    /\ proc["recon"].pc = "ticket"
    /\ proc' = [proc EXCEPT !["recon"] = [@ EXCEPT
           !.map = mapping,
           !.ret = "state",
           !.pc = IF mapping = NoMapping THEN "create"
                  ELSE IF IsCatchUpCycle(syncCycleCount) THEN "fetch"
                  ELSE "state"]]
    /\ UNCHANGED <<qvars, xvars, dbvars, chatvars, remotevars, now, wq, whTask, syncCycleCount, histvars>>

\* "Update state if changed": the listed state is stored when it differs from the
\* mapping read earlier.  Closed -> non-closed: inside the grace window the
\* stored state is put back and nothing is reopened; outside it a point read
\* follows.
ReconState ==
    /\ proc["recon"].pc = "state"
    /\ LET pr == proc["recon"]
           old == pr.map.state
           new == pr.st
           age == now - pr.map.updated_at
       IN  IF new # old
             THEN IF isClosedState(old) /\ ~isClosedState(new)
                    THEN IF InReopenGrace(age)
                           THEN /\ mapping' = updateThreadState(updateThreadState(mapping, new), old)
                                /\ proc' = [proc EXCEPT !["recon"] = [pr EXCEPT
                                       !.graceSkip = TRUE,
                                       !.pc = IF isHiddenState(new) THEN "hidden" ELSE "closeLoop"]]
                           ELSE /\ mapping' = updateThreadState(mapping, new)
                                /\ proc' = [proc EXCEPT !["recon"].pc = "verify"]
                    ELSE /\ mapping' = updateThreadState(mapping, new)
                         /\ proc' = [proc EXCEPT !["recon"].pc =
                                IF isHiddenState(new) # isHiddenState(old) /\ ~isClosedState(new)
                                  THEN "hidden" ELSE "closeLoop"]
             ELSE /\ proc' = [proc EXCEPT !["recon"].pc = "closeLoop"]
                  /\ UNCHANGED mapping
    /\ UNCHANGED <<qvars, xvars, ledger, dedup, chatvars, remotevars, now, wq, whTask, syncCycleCount,
                   histvars>>

\* "Close threads for tickets that are no longer open": the mapping is read
\* again; a closed, listed, recently created or recently updated one is left
\* alone (and the pass ends), any other gets a point read.
ReconCloseLoop ==
    /\ proc["recon"].pc = "closeLoop"
    /\ LET pr == proc["recon"]
       IN  IF \/ mapping = NoMapping
              \/ isClosedState(mapping.state)
              \/ pr.listed
              \/ InCloseGrace(now - mapping.created_at, now - mapping.updated_at)
             THEN EndPass
             ELSE /\ proc' = [proc EXCEPT !["recon"] = [pr EXCEPT !.pc = "closeVerify", !.map = mapping]]
                  /\ UNCHANGED syncCycleCount
    /\ UNCHANGED <<qvars, xvars, dbvars, chatvars, remotevars, now, wq, whTask, histvars>>

\* The point read before a close: the fresh state is stored; only a closed one
\* leads to closeTicketThread.  A throw is caught.
ReconCloseVerify ==
    /\ proc["recon"].pc = "closeVerify"
    /\ \E r \in ApiStates \cup Throws :
        IF r = "throw"
          THEN EndPass /\ UNCHANGED mapping
          ELSE /\ mapping' = updateThreadState(mapping, r)
               /\ IF isClosedState(r)
                    THEN /\ proc' = [proc EXCEPT !["recon"] = [@ EXCEPT !.pc = "closing", !.fresh = r]]
                         /\ UNCHANGED syncCycleCount
                    ELSE EndPass
    /\ UNCHANGED <<qvars, xvars, ledger, dedup, chatvars, remotevars, now, wq, whTask, histvars>>

\* closeTicketThread for the ticket confirmed closed; a throw is caught.
ReconClose ==
    /\ proc["recon"].pc = "closing"
    /\ \E r \in EditOutcomes :
        threads' = closeTicketThread(proc["recon"].map.thread_id, r)
    /\ EndPass
    /\ UNCHANGED <<qvars, xvars, dbvars, posts, remotevars, now, wq, whTask, histvars>>

\* ---------------------------------------------------------------------------
\* Environment
\* ---------------------------------------------------------------------------

\* A customer writes, or the remote system records an event, on the ticket.
RemoteNewArticle(sender) ==
    /\ Len(remoteArticles) < MaxArticles
    /\ remoteArticles' = Append(remoteArticles, sender)
    /\ UNCHANGED <<qvars, xvars, dbvars, chatvars, remoteState, staleState, nChanges, now, procvars, histvars>>

\* The ticket's state changes in the remote system.
RemoteSetState(state) ==
    /\ nChanges < MaxChanges
    /\ state # remoteState
    /\ nChanges' = nChanges + 1
    /\ staleState' = remoteState
    /\ remoteState' = state
    /\ UNCHANGED <<qvars, xvars, dbvars, chatvars, remoteArticles, now, procvars, histvars>>

\* A minute passes.
Tick ==
    /\ now + 60 <= MaxTime
    /\ now' = now + 60
    /\ UNCHANGED <<qvars, xvars, dbvars, chatvars, remotevars, procvars, histvars>>

\* ---------------------------------------------------------------------------
\* The /close command (commands/ticket.ts: handleClose); it is not a task of the
\* ticket's queue
\* ---------------------------------------------------------------------------

IdleCmd == [pc |-> "idle", map |-> NoMapping, quiet |-> FALSE, seen |-> 0]

\* The webhook deliveries whose handling is over.
SettledDeliveries == {k \in DOMAIN attempts : attempts[k].outcome # "pending"}

\* A mapped agent runs /close in the ticket's thread: requireMapping finds the
\* mapping of the thread, the reply is deferred, the id of the "closed" state is
\* looked up.
CloseCommand ==
    /\ cmd.pc = "idle"
    /\ cmdClosed = "no"
    /\ mapping # NoMapping
    /\ cmd' = [pc |-> "update", map |-> mapping, quiet |-> whTask = NoTask,
               seen |-> Cardinality(SettledDeliveries)]
    /\ UNCHANGED <<qvars, corevars, cmdClosed, sidevars>>

\* updateTicket(ticket, { state_id: closed }) reaches the remote system, which
\* closes the ticket (the answer is still under way); or the lookup or the
\* update throws and the command ends.
CloseUpdate ==
    /\ cmd.pc = "update"
    /\ \E r \in {"ok", "throw"} :
        IF r = "ok"
          THEN /\ remoteState' = "closed"
               /\ staleState' = remoteState
               /\ cmd' = [cmd EXCEPT !.pc = "store"]
               /\ UNCHANGED cmdClosed
          ELSE /\ cmd' = IdleCmd
               /\ cmdClosed' = "other"
               /\ UNCHANGED <<remoteState, staleState>>
    /\ UNCHANGED <<qvars, dbvars, chatvars, remoteArticles, nChanges, now, procvars, histvars,
                   sidevars>>

\* The answer of updateTicket arrived: updateThreadState(ticket, "closed") at
\* once, then closeTicketThread is called.
CloseStore ==
    /\ cmd.pc = "store"
    /\ mapping' = updateThreadState(mapping, "closed")
    /\ cmd' = [cmd EXCEPT !.pc = "edit"]
    /\ UNCHANGED <<qvars, ledger, dedup, chatvars, remotevars, now, procvars, histvars, cmdClosed,
                   sidevars>>

\* closeTicketThread settles and the reply is edited.
CloseEdit ==
    /\ cmd.pc = "edit"
    /\ \E r \in EditOutcomes :
        /\ threads' = closeTicketThread(cmd.map.thread_id, r)
        /\ cmdClosed' = IF /\ r = "ok"
                            /\ cmd.quiet /\ whTask = NoTask
                            /\ Cardinality(SettledDeliveries) = cmd.seen
                           THEN "yes" ELSE "other"
    /\ cmd' = IdleCmd
    /\ UNCHANGED <<qvars, dbvars, posts, remotevars, now, procvars, histvars, sidevars>>

\* ---------------------------------------------------------------------------
\* Periodic sync timer (index.ts main, steps 6 and 7)
\*
\* timer.passes counts the executions of syncAllTickets in progress; it is the
\* quantity the `syncing` flag is there to keep at one.
\* ---------------------------------------------------------------------------

MaxTicks == 6

\* The guard that lets the periodic sync skip a firing, tried on mutants.
SyncingGuardNever(syncing) == FALSE

\* if (syncing) return;
SyncingGuard(syncing) == syncing

\* await syncAllTickets(client): the start-up pass begins.
StartupSync ==
    /\ timer.main = "boot"
    /\ timer' = [timer EXCEPT !.main = "startup", !.passes = @ + 1]
    /\ UNCHANGED besidesTimer

\* The start-up pass ends.  When it resolves, main() goes on and creates the
\* interval timer; when it rejects, main() rejects and no timer is created.
StartupEnd ==
    /\ timer.main = "startup"
    /\ \E r \in {"ok", "throw"} :
        timer' = [timer EXCEPT !.main = IF r = "ok" THEN "timer" ELSE "dead",
                               !.passes = @ - 1]
    /\ UNCHANGED besidesTimer

\* The interval timer fires: the callback returns when the guard is set,
\* otherwise it sets the guard and calls syncAllTickets.
TimerTick ==
    /\ timer.main = "timer"
    /\ timer.ticks < MaxTicks
    /\ timer' = IF SyncingGuard(timer.syncing)
                  THEN [timer EXCEPT !.ticks = @ + 1, !.skipped = @ + 1]
                  ELSE [timer EXCEPT !.ticks = @ + 1, !.syncing = TRUE,
                                     !.passes = @ + 1]
    /\ UNCHANGED besidesTimer

\* A pass started by a timer callback resolves or rejects; the catch logs, the
\* finally clears the guard.
TimerPassEnd ==
    /\ timer.main = "timer"
    /\ timer.passes > 0
    /\ \E r \in {"ok", "throw"} :
        timer' = [timer EXCEPT !.passes = @ - 1, !.syncing = FALSE,
                               !.failed = IF r = "throw" THEN @ + 1 ELSE @]
    /\ UNCHANGED besidesTimer

\* ---------------------------------------------------------------------------
\* Attachments of a replicated article (sync.ts: syncAllUnsyncedArticles, the
\* attachment loop; util/attachmentLimits.ts)
\*
\* Sizes are in units of 1 byte, scaled down: the limits are drawn from small
\* sets, the one literal of the loop (10, "tiny placeholder") is kept.
\* ---------------------------------------------------------------------------

MaxAttachments == 3

\* att.size as the remote system sent it: NotFinite stands for a missing or
\* non-numeric size.
NotFinite == -1

DeclaredSizes == {NotFinite, 0, 5, 10, 40}

\* The number of bytes a download of the file really yields.
ActualSizes == {10, 40}

Files == [size : DeclaredSizes, actual : ActualSizes]

AttachmentLists ==
    UNION {[1..n -> Files] : n \in 1..MaxAttachments}

\* getAttachmentLimits(): every limit is a positive number.
LimitSets ==
    [perFileBytes : {20}, totalBytes : {30, 50}, maxCount : {1, 2},
     downloadCapBytes : {30}]

\* if (attSize < 10 && attSize > 0) continue
TINY_PLACEHOLDER == 10

\* const attSize = Number.isFinite(att.size) ? att.size : 0
AttSize(size) == IF size = NotFinite THEN 0 ELSE size

RECURSIVE SumActual(_, _)
\* The byte length of the files handed to sendToThread.
SumActual(files, idx) ==
    IF idx = <<>> THEN 0
    ELSE files[Head(idx)].actual + SumActual(files, Tail(idx))

\* The set of elements of a sequence.
Range(f) == {f[k] : k \in DOMAIN f}

\* The loop reaches an article with attachments: limits are read, the totals
\* and lists start empty.
AttachBegin ==
    /\ attLoop.pc = "idle"
    /\ \E files \in AttachmentLists, limits \in LimitSets :
        attLoop' = [IdleAtt EXCEPT !.pc = "loop", !.files = files, !.limits = limits,
                               !.i = 1]
    /\ UNCHANGED besidesAtt

\* One turn of `for (const att of article.attachments)` up to the download.
AttachNext ==
    /\ attLoop.pc = "loop"
    /\ LET a == attLoop
           attSize == AttSize(a.files[a.i].size)
       IN  attLoop' =
            IF a.i > Len(a.files)
              THEN [a EXCEPT !.pc = "send"]
            ELSE IF attSize < TINY_PLACEHOLDER /\ attSize > 0
              THEN [a EXCEPT !.i = @ + 1]
            ELSE IF attSize > a.limits.perFileBytes
              THEN [a EXCEPT !.largeFileLinks = Append(@, a.i), !.i = @ + 1]
            ELSE IF Len(a.attachments) >= a.limits.maxCount
              THEN [a EXCEPT !.pc = "send"]
            ELSE IF attSize > 0 /\ a.totalDownloaded + attSize > a.limits.totalBytes
              THEN [a EXCEPT !.largeFileLinks = Append(@, a.i), !.i = @ + 1]
            ELSE [a EXCEPT !.pc = "download", !.fetched = @ \cup {a.i}]
    /\ UNCHANGED besidesAtt

\* downloadAttachment settles: the file joins the upload list and its real
\* length the total; or it throws and only a file of unknown size gets a link.
AttachDownload ==
    /\ attLoop.pc = "download"
    /\ \E r \in {"ok", "throw"} :
        attLoop' =
            IF r = "ok"
              THEN [attLoop EXCEPT !.attachments = Append(@, attLoop.i),
                               !.totalDownloaded = @ + attLoop.files[attLoop.i].actual,
                               !.i = @ + 1, !.pc = "loop"]
            ELSE IF AttSize(attLoop.files[attLoop.i].size) = 0
              THEN [attLoop EXCEPT !.largeFileLinks = Append(@, attLoop.i),
                               !.i = @ + 1, !.pc = "loop"]
            ELSE [attLoop EXCEPT !.i = @ + 1, !.pc = "loop"]
    /\ UNCHANGED besidesAtt

\* sendToThread(client, threadId, finalContent, attachments): a message id and
\* the article is marked synced, or null and it is left for the next pass.
AttachSend ==
    /\ attLoop.pc = "send"
    /\ \E r \in {"sent", "null"} :
        attLoop' = [attLoop EXCEPT !.pc = IF r = "sent" THEN "posted" ELSE "unsent"]
    /\ UNCHANGED besidesAtt

\* ---------------------------------------------------------------------------
\* Webhook endpoint (web/routes/zammad.ts)
\*
\* HMAC-SHA1 is taken as a perfect keyed hash: the hex digest of a message
\* under a key is the record [len, key, msg]; two digests are the same string
\* exactly when they are the same record.
\* ---------------------------------------------------------------------------

MaxRequests == 3

\* env().ZAMMAD_WEBHOOK_SECRET, and a key the sender may have instead.
ZAMMAD_WEBHOOK_SECRET == "secret"

Keys == {ZAMMAD_WEBHOOK_SECRET, "other"}

\* rawBody of a request; NoBody when the plugin set none.
NoBody == "undefined"

Raws == {NoBody, "", "a", "b"}

\* Length of a hex SHA-1 digest.
HexDigestLength == 40

\* crypto.createHmac("sha1", secret).update(raw, "utf8").digest("hex")
HmacSha1Hex(secret, raw) == [len |-> HexDigestLength, key |-> secret, msg |-> raw]

\* Signature strings a sender may put in the header: any digest, or a digest
\* cut short by one character.
Sigs ==
    {HmacSha1Hex(k, m) : k \in Keys, m \in Raws \ {NoBody}}
        \cup {[HmacSha1Hex(ZAMMAD_WEBHOOK_SECRET, m) EXCEPT !.len = HexDigestLength - 1] :
                m \in Raws \ {NoBody}}

\* The X-Hub-Signature header: absent, the empty string, a bare signature or
\* one with the sha1= prefix.
Headers ==
    {[kind |-> "none", sig |-> NoSig], [kind |-> "empty", sig |-> NoSig]}
        \cup [kind : {"bare", "sha1="}, sig : Sigs]

\* timingSafeEqual(a, b): false on different lengths, else byte comparison.
timingSafeEqual(a, b) == IF a.len # b.len THEN FALSE ELSE a = b

\* verifySignature, mutated: every request passes.
verifySignatureAlways(raw, header, secret) == TRUE

\* verifySignature(raw, header, secret)
verifySignature(raw, header, secret) ==
    IF header.kind \in {"none", "empty"} \/ raw \in {NoBody, ""}
        THEN FALSE
        ELSE timingSafeEqual(HmacSha1Hex(secret, raw), header.sig)

\* The status code the route answers with.
RouteCode(raw, header, hasTicket) ==
    IF raw \in {NoBody, ""} THEN 400
    ELSE IF ~verifySignature(raw, header, ZAMMAD_WEBHOOK_SECRET) THEN 401
    ELSE IF ~hasTicket THEN 400
    ELSE 202

\* A request reaches POST /webhooks/zammad.  On 202 handleWebhook was handed
\* to enqueueForTicket with the delivery id of the request; on every other code
\* the handler returned before.
Request ==
    /\ req.n < MaxRequests
    /\ \E raw \in Raws, header \in Headers, hasTicket \in BOOLEAN, d \in DeliveryIds :
        LET code == RouteCode(raw, header, hasTicket)
        IN  /\ d <= FreshId
            /\ req' = [n |-> req.n + 1, raw |-> raw, header |-> header,
                       hasTicket |-> hasTicket, code |-> code]
            /\ IF code = 202 /\ Len(attempts) < MaxDeliveries
                 THEN /\ attempts' = Append(attempts,
                                            [d |-> d, outcome |-> "pending", mutated |-> FALSE])
                      /\ wq' = Append(wq, [kind |-> "webhook", d |-> d, k |-> Len(attempts) + 1])
                 ELSE /\ code # 202
                      /\ UNCHANGED <<attempts, wq>>
    /\ UNCHANGED <<qvars, cmdvars, timer, attLoop, health, calm, vis, latevars, dbvars, chatvars, remotevars, now,
                   whTask, proc, syncCycleCount, forwarded, nMessages>>

\* ---------------------------------------------------------------------------
\* Health monitor (services/search.ts from line 95: startHealthCheck)
\*
\* Each firing of the interval timer that passes the `checking` guard is a
\* callback of its own.  `checking` is cleared when the probe returns, so a
\* callback that awaits sendAlert or sendRecovery does not keep the next
\* firing from running.  Callbacks awaiting a send are counted under the outage
\* in which they decided to alert, or, for a recovery notice, under the outage
\* of the last failed probe (failedIn).
\* ---------------------------------------------------------------------------

MaxProbes == 6

\* const FAILURE_THRESHOLD = 3
FAILURE_THRESHOLD == 3

\* The remote system becomes unreachable: an outage begins.
RemoteDown ==
    /\ health.up
    /\ health.outage < MaxOutages
    /\ health' = [health EXCEPT !.up = FALSE, !.outage = @ + 1]
    /\ UNCHANGED besidesHealth

\* The remote system is reachable again.
RemoteUp ==
    /\ ~health.up
    /\ health' = [health EXCEPT !.up = TRUE]
    /\ UNCHANGED besidesHealth

\* The interval timer fires: return when a probe is under way, else start one.
HealthTick ==
    /\ health.ticks < MaxProbes
    /\ health' = IF health.checking
                   THEN [health EXCEPT !.ticks = @ + 1]
                   ELSE [health EXCEPT !.ticks = @ + 1, !.checking = TRUE, !.probing = TRUE]
    /\ UNCHANGED besidesHealth

\* checkZammad returned: `checking` is cleared and the callback runs up to its
\* next await or to its end.
ProbeEnd ==
    /\ health.probing
    /\ LET h == [health EXCEPT !.probing = FALSE, !.checking = FALSE]
           o == h.outage
       IN  health' =
            IF h.up
              THEN IF h.failureCount >= FAILURE_THRESHOLD /\ h.alertSent
                     THEN [h EXCEPT !.presence = "ok", !.recovering[h.failedIn] = @ + 1,
                                    !.failedRun = 0]
                     ELSE [h EXCEPT !.failureCount = 0, !.alertSent = FALSE,
                                    !.failedRun = 0]
              ELSE IF h.failureCount + 1 >= FAILURE_THRESHOLD /\ ~h.alertSent
                     THEN [h EXCEPT !.failureCount = @ + 1, !.presence = "down",
                                    !.alerting[o] = @ + 1, !.decided[o] = @ + 1,
                                    !.failedRun = @ + 1, !.failedIn = o]
                     ELSE [h EXCEPT !.failureCount = @ + 1, !.failedRun = @ + 1,
                                    !.failedIn = o]
    /\ UNCHANGED besidesHealth

\* sendAlert returned (the message went out, or the channel was not there or
\* the send threw and was logged): alertSent = true.
AlertEnd ==
    /\ \E o \in Outages, r \in {"sent", "failed"} :
        /\ health.alerting[o] > 0
        /\ health' = [health EXCEPT !.alerting[o] = @ - 1, !.alertSent = TRUE,
                                    !.alerts[o] = IF r = "sent" THEN @ + 1 ELSE @]
    /\ UNCHANGED besidesHealth

\* sendRecovery returned: failureCount = 0, alertSent = false.
RecoveryEnd ==
    /\ \E o \in Outages, r \in {"sent", "failed"} :
        /\ health.recovering[o] > 0
        /\ health' = [health EXCEPT !.recovering[o] = @ - 1,
                                    !.failureCount = 0, !.alertSent = FALSE,
                                    !.recoveries[o] = IF r = "sent" THEN @ + 1 ELSE @]
    /\ UNCHANGED besidesHealth

\* ---------------------------------------------------------------------------
\* Thread visibility: lock, archive and role members (services/threads.ts and
\* the state blocks of processWebhook, syncAllTickets, handleState, handleLock)
\* ---------------------------------------------------------------------------
\* One ticket; handlers run one at a time and every call succeeds.  A member
\* operation that is not awaited stays in flight (discordQueue runs ten
\* operations at a time) and takes effect at any later moment.

\* Fire-and-forget member operations of one kind in flight at a time.
MaxBackground == 1

VisStates ==
    {"open", "pending close", "waiting for reply", "closed", "closed (locked until)"}

\* updateThreadState on the mapping of the visibility record.
VisStore(v, state) ==
    [v EXCEPT !.stored = state, !.updated_at = now,
              !.prev = IF state = v.stored THEN v.prev ELSE v.stored]

\* The hidden-state blocks that follow the state change of a handler with
\* locals old and new: into a hidden state the members are removed first; out
\* of one, and not to a closed state, the thread is unarchived first.
AfterBlocks(v) == IF v.h = "recon" THEN "closeLoop" ELSE "done"

HiddenBlocks(v) ==
    IF isHiddenState(v.new) /\ ~isHiddenState(v.old) THEN "hideRemove"
    ELSE IF isHiddenState(v.old) /\ ~isHiddenState(v.new) /\ ~isClosedState(v.new)
           THEN "showEdit"
    ELSE AfterBlocks(v)

\* The ticket's state is changed in the remote system (by its own users).
VisRemoteSetState(state) ==
    /\ vis.n < MaxChanges
    /\ state # vis.remote
    /\ vis' = [vis EXCEPT !.remote = state, !.n = @ + 1]
    /\ UNCHANGED besidesVis

\* processWebhook: getTicket, then the mapping is read.
VisWebhook ==
    /\ vis.h = "none"
    /\ vis' = [vis EXCEPT !.h = "wh", !.new = vis.remote, !.old = vis.stored,
                          !.pc = IF vis.stored = "none" THEN "create" ELSE "state"]
    /\ UNCHANGED besidesVis

\* syncAllTickets: getAllOpenTickets, then the mapping of a listed ticket is
\* read; a ticket that is not listed is left to the close loop.
VisRecon ==
    /\ vis.h = "none"
    /\ LET isListed == vis.remote \notin ListClosedStates
       IN  vis' = [vis EXCEPT !.h = "recon", !.new = vis.remote, !.old = vis.stored,
                              !.listed = isListed,
                              !.pc = IF ~isListed THEN "closeLoop"
                                     ELSE IF vis.stored = "none" THEN "create"
                                     ELSE "ensure"]
    /\ UNCHANGED besidesVis

\* createTicketThread: the thread is started, the mapping is stored with the
\* ticket's state, and addRoleMembersToThread is called without await.
\* processWebhook goes on with the effects of a closed or hidden state,
\* syncAllTickets with the next ticket.
VisCreate ==
    /\ vis.pc = "create"
    /\ vis.adds < MaxBackground
    /\ LET v == [VisStore(vis, vis.new) EXCEPT
                    !.locked = FALSE, !.archived = FALSE, !.member = FALSE,
                    !.adds = @ + 1, !.old = "none"]
       IN  vis' = [v EXCEPT !.pc =
                      IF vis.h = "recon" THEN "closeLoop"
                      ELSE IF isClosedState(vis.new) THEN "close"
                      ELSE IF isHiddenState(vis.new) THEN "hideRemove"
                      ELSE "done"]
    /\ UNCHANGED besidesVis

\* syncAllTickets, existing mapping: role members are added to the unarchived
\* thread of a ticket that is not hidden (awaited); the unarchived thread of a
\* "waiting for reply" ticket is archived again.
VisEnsure ==
    /\ vis.pc = "ensure"
    /\ vis' = [vis EXCEPT
           !.member = IF ~isHiddenState(vis.new) /\ ~vis.archived THEN TRUE ELSE @,
           !.archived = IF vis.new = "waiting for reply" THEN TRUE ELSE @,
           !.pc = "state"]
    /\ UNCHANGED besidesVis

\* "Handle state changes": a state that differs from the mapping's is stored
\* at once.  syncAllTickets has no branch for a change to a closed state, and
\* inside the reopen grace window it puts the old state back.
VisState ==
    /\ vis.pc = "state"
    /\ vis' =
         IF vis.new = vis.old THEN [vis EXCEPT !.pc = AfterBlocks(vis)]
         ELSE IF vis.h = "wh"
           THEN [VisStore(vis, vis.new) EXCEPT !.pc =
                    IF isClosedState(vis.new) THEN "close"
                    ELSE IF isClosedState(vis.old) THEN "verify"
                    ELSE HiddenBlocks(vis)]
         ELSE IF isClosedState(vis.old) /\ ~isClosedState(vis.new)
           THEN IF InReopenGrace(now - vis.updated_at)
                  THEN [vis EXCEPT !.updated_at = now, !.pc = HiddenBlocks(vis)]
                  ELSE [VisStore(vis, vis.new) EXCEPT !.pc = "verify"]
         ELSE [VisStore(vis, vis.new) EXCEPT !.pc = HiddenBlocks(vis)]
    /\ UNCHANGED besidesVis

\* The point read before a reopen: a closed answer is stored and nothing is
\* reopened.
VisVerify ==
    /\ vis.pc = "verify"
    /\ vis' = IF ReopenAfterVerify(vis.remote)
                THEN [vis EXCEPT !.pc = "reopen"]
                ELSE [VisStore(vis, vis.remote) EXCEPT !.pc = HiddenBlocks(vis)]
    /\ UNCHANGED besidesVis

\* reopenTicketThread: the edit is awaited, addRoleMembersToThread is not.
VisReopen ==
    /\ vis.pc = "reopen"
    /\ vis.adds < MaxBackground
    /\ vis' = [vis EXCEPT !.locked = FALSE, !.archived = FALSE, !.adds = @ + 1,
                          !.pc = HiddenBlocks(vis)]
    /\ UNCHANGED besidesVis

\* closeTicketThread: the edit is awaited, removeRoleMembersFromThread is not.
VisClose ==
    /\ vis.pc = "close"
    /\ vis.removes < MaxBackground
    /\ vis' = [vis EXCEPT !.locked = TRUE, !.archived = TRUE, !.removes = @ + 1,
                          !.pc = "done"]
    /\ UNCHANGED besidesVis

\* await removeRoleMembersFromThread(...)
VisHideRemove ==
    /\ vis.pc = "hideRemove"
    /\ vis' = [vis EXCEPT !.member = FALSE,
                          !.pc = IF vis.new = "waiting for reply" THEN "hideArchive"
                                 ELSE AfterBlocks(vis)]
    /\ UNCHANGED besidesVis

\* if (thread?.isThread() && !thread.archived) await thread.edit({ archived: true })
VisHideArchive ==
    /\ vis.pc = "hideArchive"
    /\ vis' = [vis EXCEPT !.archived = TRUE, !.pc = AfterBlocks(vis)]
    /\ UNCHANGED besidesVis

\* if (thread.archived) await thread.edit({ archived: false })
VisShowEdit ==
    /\ vis.pc = "showEdit"
    /\ vis' = [vis EXCEPT !.archived = FALSE, !.pc = "showAdd"]
    /\ UNCHANGED besidesVis

\* await addRoleMembersToThread(thread)
VisShowAdd ==
    /\ vis.pc = "showAdd"
    /\ vis' = [vis EXCEPT !.member = TRUE, !.pc = AfterBlocks(vis)]
    /\ UNCHANGED besidesVis

\* The close loop: a mapping that is closed, listed or younger than the grace
\* window is skipped.
VisCloseLoop ==
    /\ vis.pc = "closeLoop"
    /\ vis' = [vis EXCEPT !.pc =
                  IF \/ vis.stored = "none"
                     \/ isClosedState(vis.stored)
                     \/ vis.listed
                     \/ InCloseGrace(now - vis.updated_at, now - vis.updated_at)
                    THEN "done" ELSE "closeVerify"]
    /\ UNCHANGED besidesVis

\* The point read of the close loop: the answer is stored; closeTicketThread
\* follows only for a closed one.
VisCloseVerify ==
    /\ vis.pc = "closeVerify"
    /\ vis' = [VisStore(vis, vis.remote) EXCEPT
                  !.pc = IF isClosedState(vis.remote) THEN "close" ELSE "done"]
    /\ UNCHANGED besidesVis

\* handleState / handleLock: updateTicket sets the remote state; a closed name
\* is stored and closeTicketThread follows, a hidden name is stored and the
\* members are removed ("waiting for reply" is archived too); any other name
\* has no local effect.
VisCommand(name) ==
    /\ vis.h = "none"
    /\ vis.stored # "none"
    /\ vis.n < MaxChanges
    /\ name # vis.remote
    /\ LET v == [vis EXCEPT !.remote = name, !.n = @ + 1, !.h = "cmd",
                            !.old = vis.stored, !.new = name]
       IN  vis' = IF isClosedState(name)
                    THEN [VisStore(v, name) EXCEPT !.pc = "close"]
                  ELSE IF isHiddenState(name)
                    THEN [VisStore(v, name) EXCEPT !.pc = "hideRemove"]
                  ELSE [v EXCEPT !.pc = "done"]
    /\ UNCHANGED besidesVis

\* The rest of the handler (rename, article sync, reply) is over.
VisDone ==
    /\ vis.pc = "done"
    /\ vis' = [vis EXCEPT !.h = "none", !.pc = "idle", !.old = "none", !.new = "none",
                          !.listed = FALSE]
    /\ UNCHANGED besidesVis

\* A member add that was not awaited takes effect.
LandAdd ==
    /\ vis.adds > 0
    /\ vis' = [vis EXCEPT !.adds = @ - 1, !.member = TRUE]
    /\ UNCHANGED besidesVis

\* A member removal that was not awaited takes effect.
LandRemove ==
    /\ vis.removes > 0
    /\ vis' = [vis EXCEPT !.removes = @ - 1, !.member = FALSE]
    /\ UNCHANGED besidesVis

\* ---------------------------------------------------------------------------
\* Thread name (processWebhook, syncAllTickets, renameTicketThread)
\*
\* One tracked ticket without owner.  The webhook task and the reconciliation
\* pass each read the ticket, then compare the name built from the title they
\* read with the name of the cached thread object, then wait for setName in
\* the egress queue.  ren.changes counts the title changes that change the
\* built name.
\* ---------------------------------------------------------------------------
MaxTitleChanges == 1

MaxRenames == 3

\* The ticket's title is changed in the remote system.
RenRemoteTitle(title) ==
    /\ ren.changes < MaxTitleChanges
    /\ buildThreadName(title) # buildThreadName(ren.title)
    /\ ren' = [ren EXCEPT !.title = title, !.changes = @ + 1]
    /\ UNCHANGED besidesRen

\* processWebhook: getTicket; syncAllTickets: the listing that holds the
\* ticket.  The handler keeps the title it read.
RenRead(p) ==
    /\ ren.h[p].pc = "idle"
    /\ ren' = [ren EXCEPT !.h[p] = [pc |-> "check", title |-> ren.title, name |-> <<>>]]
    /\ UNCHANGED besidesRen

\* updateThreadTitle when the title differs from the mapping's; then
\* renameTicketThread up to discordQueue.add: nothing is queued when the built
\* name equals thread.name.
RenCheck(p) ==
    /\ ren.h[p].pc = "check"
    /\ LET name == buildThreadName(ren.h[p].title)
       IN  ren' = [ren EXCEPT
                      !.stored = ren.h[p].title,
                      !.h[p] = IF name = ren.name THEN IdleRename
                               ELSE [@ EXCEPT !.pc = "call", !.name = name]]
    /\ UNCHANGED besidesRen

\* The queued thread.setName(name) runs: one rename call to the platform.
RenCall(p) ==
    /\ ren.h[p].pc = "call"
    /\ ren.calls < MaxRenames
    /\ ren' = [ren EXCEPT !.name = ren.h[p].name, !.calls = @ + 1, !.h[p] = IdleRename]
    /\ UNCHANGED besidesRen

\* ---------------------------------------------------------------------------
\* Ledger retention (db/index.ts: pruneSyncedArticles; index.ts: the hourly
\* maintenance timer; sync.ts: syncAllUnsyncedArticles)
\*
\* One tracked ticket that stays tracked; time in days.  kept.posted counts the
\* messages posted for each article.
\* ---------------------------------------------------------------------------
MaxDays == 31

\* DELETE ... WHERE synced_at < datetime('now', '-30 days')
RETENTION_DAYS == 30

\* A customer article is added to the ticket in the remote system.
PruneNewArticle ==
    /\ kept.articles < MaxArticles
    /\ kept' = [kept EXCEPT !.articles = @ + 1]
    /\ UNCHANGED besidesKept

\* A day passes.
PruneDay ==
    /\ kept.day < MaxDays
    /\ kept' = [kept EXCEPT !.day = @ + 1]
    /\ UNCHANGED besidesKept

\* The article ids that have a row in synced_articles.
KeptRows == {a \in 1..MaxArticles : kept.synced_at[a] # NoRow}

\* One turn of the loop of syncAllUnsyncedArticles for an article that
\* getArticles returned: an article with a row is skipped; any other is sent
\* to the thread and gets a row dated now.
PruneSyncTurn(a) ==
    /\ a <= kept.articles
    /\ ~isArticleSynced(a, KeptRows)
    /\ kept.posted[a] < MaxPosts
    /\ kept' = [kept EXCEPT !.posted[a] = @ + 1, !.synced_at[a] = kept.day]
    /\ UNCHANGED besidesKept

\* The maintenance timer fires: pruneSyncedArticles deletes every row older
\* than the retention window.
pruneSyncedArticles ==
    /\ \E a \in 1..MaxArticles :
          kept.synced_at[a] # NoRow /\ kept.synced_at[a] < kept.day - RETENTION_DAYS
    /\ kept' = [kept EXCEPT !.synced_at =
                  [a \in 1..MaxArticles |->
                      IF kept.synced_at[a] < kept.day - RETENTION_DAYS THEN NoRow
                      ELSE kept.synced_at[a]]]
    /\ UNCHANGED besidesKept

\* ---------------------------------------------------------------------------
\* Calls to the chat platform (queue/index.ts: discordQueue; threads.ts;
\* backfill.ts; services/search.ts: sendAlert, sendRecovery)
\*
\* egress.waiting and egress.running are the tasks of discordQueue that wait
\* and that run; egress.direct are the calls in flight that were made without
\* the queue.
\* ---------------------------------------------------------------------------
MaxWaiting == 4

MaxDirect == 2

\* new PQueue({ concurrency: 10, ... })
DISCORD_CONCURRENCY == 10

\* discordQueue.add(...) by createTicketThread, updateHeaderEmbed,
\* closeTicketThread, reopenTicketThread, renameTicketThread, sendToThread,
\* addRoleMembersToThread, removeRoleMembersFromThread and the thread edits of
\* syncAllTickets: the task waits.
EgressAdd ==
    /\ egress.waiting < MaxWaiting
    /\ egress' = [egress EXCEPT !.waiting = @ + 1]
    /\ UNCHANGED besidesEgress

\* The queue starts a waiting task when fewer than `concurrency` are running.
EgressStart ==
    /\ egress.waiting > 0
    /\ egress.running < DISCORD_CONCURRENCY
    /\ egress' = [egress EXCEPT !.waiting = @ - 1, !.running = @ + 1]
    /\ UNCHANGED besidesEgress

\* The platform answers a call made by a queue task.
EgressEnd ==
    /\ egress.running > 0
    /\ egress' = [egress EXCEPT !.running = @ - 1]
    /\ UNCHANGED besidesEgress

\* sendAlert / sendRecovery: await channel.send(...) on the channel itself.
AlertSend ==
    /\ egress.direct < MaxDirect
    /\ egress' = [egress EXCEPT !.direct = @ + 1]
    /\ UNCHANGED besidesEgress

\* The platform answers the health notice.
AlertSent ==
    /\ egress.direct > 0
    /\ egress' = [egress EXCEPT !.direct = @ - 1]
    /\ UNCHANGED besidesEgress

\* ---------------------------------------------------------------------------
\* Shutdown (index.ts: shutdown; db/index.ts: db, closeDb)
\*
\* A per-ticket task is a webhook task at one of its awaits: the point read
\* ("read"), a send to the thread ("send"), or between them where it uses the
\* store ("store", "mark").  shut.phase is the position of shutdown().
\* ---------------------------------------------------------------------------
TaskSteps == <<"read", "store", "send", "mark", "done">>

InFlight(t) == shut.task[t] \in {"read", "store", "send", "mark"}

RECURSIVE IndexOf(_, _, _)
IndexOf(seq, x, k) == IF seq[k] = x THEN k ELSE IndexOf(seq, x, k + 1)

\* A queued webhook task starts; nothing stops the per-ticket queues, so a
\* task that was queued before the signal may also start after it.
ShutTaskStart(t) ==
    /\ shut.phase # "exited"
    /\ shut.task[t] = "idle"
    /\ shut' = [shut EXCEPT !.task[t] = "read"]
    /\ UNCHANGED besidesShut

\* The task's await settles and it runs to its next one, or it throws.  (The
\* store is open as long as the process lives: closeDb is followed by
\* process.exit without an await.)
ShutTaskStep(t) ==
    /\ shut.phase # "exited"
    /\ InFlight(t)
    /\ \E r \in {"ok", "throw"} :
          shut' = [shut EXCEPT !.task[t] =
              IF r = "throw" THEN "failed"
                ELSE TaskSteps[IndexOf(TaskSteps, shut.task[t], 1) + 1]]
    /\ UNCHANGED besidesShut

\* SIGTERM or SIGINT: the timers are cleared and server.close() is awaited.
ShutSignal ==
    /\ shut.phase = "up"
    /\ shut' = [shut EXCEPT !.phase = "server"]
    /\ UNCHANGED besidesShut

\* server.close() settles: discordClient.destroy() is awaited.
ShutServerClosed ==
    /\ shut.phase = "server"
    /\ shut' = [shut EXCEPT !.phase = "client"]
    /\ UNCHANGED besidesShut

\* discordClient.destroy() settles: closeDb(), logger.flush() and
\* process.exit(0) follow without an await.  Whatever task has not settled
\* ends with the process.
ShutExit ==
    /\ shut.phase = "client"
    /\ shut' = [phase |-> "exited", db |-> "closed",
                task |-> [t \in Tickets |->
                            IF InFlight(t) THEN "aborted" ELSE shut.task[t]]]
    /\ UNCHANGED besidesShut

\* ---------------------------------------------------------------------------
\* Chat messages (events/messageCreate.ts: onMessageCreate)
\*
\* A message is [bot, self, channel, mapped]: its author is a bot, is this
\* bot, has a row in user_map; its channel is the tracked ticket thread
\* ("ticket"), another thread ("thread") or a plain channel ("text").
\* chat.pending are the MessageCreate events not handled yet, chat.forwards
\* the messages handed to forwardToZammad, chat.toPost the remote articles
\* that replication may still post to the thread.
\* ---------------------------------------------------------------------------
MaxWritten == 2

MaxPending == 2

Channels == {"ticket", "thread", "text"}

Messages == [bot : BOOLEAN, self : BOOLEAN, channel : Channels, mapped : BOOLEAN]

\* The guards of onMessageCreate without the test of message.author.bot.
ForwardsBots(m) ==
    /\ m.channel \in {"ticket", "thread"}
    /\ m.channel = "ticket"
    /\ m.mapped

\* The guards of onMessageCreate: not a bot, in a thread, the thread has a
\* mapping, the author has a row in user_map.
ShouldForward(m) ==
    /\ ~m.bot
    /\ m.channel \in {"ticket", "thread"}
    /\ m.channel = "ticket"
    /\ m.mapped

\* Somebody other than this bot writes a message somewhere.
ChatWrite(m) ==
    /\ ~m.self
    /\ chat.written < MaxWritten
    /\ Len(chat.pending) < MaxPending
    /\ chat' = [chat EXCEPT !.pending = Append(@, m), !.written = @ + 1]
    /\ UNCHANGED besidesChat

\* An article arrives in the remote system from a customer.
ChatRemoteArticle ==
    /\ chat.arrived < MaxArticles
    /\ chat' = [chat EXCEPT !.arrived = @ + 1, !.toPost = @ + 1]
    /\ UNCHANGED besidesChat

\* sendToThread: replication posts a remote article to the ticket thread (a
\* forwarded one too, when it is seen before it is marked synced); the
\* platform reports the bot's own message as an event.
ChatReplicate(mapped) ==
    /\ chat.toPost > 0
    /\ Len(chat.pending) < MaxPending
    /\ chat' = [chat EXCEPT
           !.toPost = @ - 1,
           !.pending = Append(@, [bot |-> TRUE, self |-> TRUE, channel |-> "ticket",
                                  mapped |-> mapped])]
    /\ UNCHANGED besidesChat

\* client.on(MessageCreate): a message that passes the guards is handed to
\* forwardToZammad, which creates a remote article.
OnMessageCreate ==
    /\ chat.pending # <<>>
    /\ LET m == Head(chat.pending)
       IN  chat' = [chat EXCEPT
               !.pending = Tail(@),
               !.handled = @ \cup {m},
               !.forwards = IF ShouldForward(m) THEN @ \cup {m} ELSE @,
               !.toPost = IF ShouldForward(m) /\ @ < MaxArticles THEN @ + 1 ELSE @]
    /\ UNCHANGED besidesChat

\* ---------------------------------------------------------------------------
\* Specifications
\* ---------------------------------------------------------------------------

InitIdleQueue ==
    /\ ticketQueues = [t \in Tickets |-> 0]
    /\ pqQueue = [q \in 1..MaxOps |-> <<>>]
    /\ pqRunning = [q \in 1..MaxOps |-> {}]
    /\ nextQueue = 0
    /\ ops = <<>>
    /\ opStatus = <<>>
    /\ startOrder = <<>>
    /\ threw = {}

InitSync == InitMain /\ InitIdleQueue

\* Replication for a ticket that stays open: webhooks, thread messages, remote
\* articles and reconciliation passes.
NextSync ==
    \/ \E d \in SeenIds \cup {FreshId} : Deliver(d)
    \/ AgentMessage
    \/ \E sender \in {"Customer", "System"} : RemoteNewArticle(sender)
    \/ StartTask
    \/ WebhookGetTicket
    \/ \E p \in Procs : CreateThread(p)
    \/ WebhookState
    \/ \E p \in Procs : SyncFetch(p)
    \/ \E p \in Procs : SyncSend(p)
    \/ ForwardCreate
    \/ ForwardMark
    \/ ReconStart
    \/ ReconTicket
    \/ ReconState
    \/ ReconCloseLoop

SpecSync == InitSync /\ [][NextSync]_vars

\* The thread lifecycle for a ticket that is closed and opened again in the
\* remote system while time passes: webhooks (each a new delivery) and
\* reconciliation passes, no articles.
LifeStates == {"open", "closed"}

NextLife ==
    \/ \E st \in LifeStates : RemoteSetState(st)
    \/ Tick
    \/ Deliver(FreshId)
    \/ StartTask
    \/ WebhookGetTicket
    \/ \E p \in Procs : CreateThread(p)
    \/ WebhookClose
    \/ WebhookState
    \/ \E p \in Procs : Verify(p)
    \/ \E p \in Procs : Reopen(p)
    \/ \E p \in Procs : SyncFetch(p)
    \/ ReconStart
    \/ ReconTicket
    \/ ReconState
    \/ ReconCloseLoop
    \/ ReconCloseVerify
    \/ ReconClose

SpecLife == InitSync /\ [][NextLife]_vars

\* The collaborators recover: from here on no call fails and the remote state
\* stays as it is.  No handler is running and nothing is queued, and the
\* mapping is older than both grace windows.
CalmDown ==
    /\ ~calm.on
    /\ \A p \in Procs : proc[p].pc = "idle"
    /\ whTask = NoTask
    /\ wq = <<>>
    /\ mapping # NoMapping
    /\ now - mapping.created_at >= CloseGraceSeconds
    /\ now - mapping.updated_at >= ReopenGraceSeconds
    /\ calm' = [calm EXCEPT !.on = TRUE]
    /\ UNCHANGED besidesCalm

\* A step of the webhook handler.
WebhookSteps ==
    \/ WebhookGetTicket
    \/ CreateThread("wh")
    \/ WebhookClose
    \/ WebhookState
    \/ Verify("wh")
    \/ Reopen("wh")
    \/ SyncFetch("wh")

\* A step of a reconciliation pass that has begun.
ReconSteps ==
    \/ CreateThread("recon")
    \/ Verify("recon")
    \/ Reopen("recon")
    \/ SyncFetch("recon")
    \/ ReconTicket
    \/ ReconState
    \/ ReconCloseLoop
    \/ ReconCloseVerify
    \/ ReconClose

\* Transient failures and recovery: the state of a tracked ticket changes, and
\* webhooks and reconciliation passes take turns while calls may fail (the
\* remote API answers with the current state); then the collaborators recover
\* and only reconciliation passes go on.
NextHeal ==
    \/ \E st \in LifeStates : ~calm.on /\ mapping # NoMapping /\ RemoteSetState(st)
    \/ Tick
    \/ ~calm.on /\ Deliver(FreshId)
    \/ proc["recon"].pc = "idle" /\ StartTask
    \/ WebhookSteps
    \/ whTask = NoTask /\ ReconStart
    \/ ReconSteps
    \/ CalmDown

InitHeal == InitEnv(Faulty) /\ InitIdleQueue

\* setInterval keeps starting passes; the event loop runs every continuation
\* that is ready; time passes.
SpecHeal ==
    /\ InitHeal
    /\ [][NextHeal]_vars
    /\ WF_vars(whTask = NoTask /\ ReconStart)
    /\ WF_vars(ReconSteps)
    /\ WF_vars(proc["recon"].pc = "idle" /\ StartTask)
    /\ WF_vars(WebhookSteps)
    /\ WF_vars(Tick)

\* The states a ticket ends in: the closed variants and "merged" ("removed" is
\* treated like "merged" everywhere in the code).
TerminalStates == {"open", "closed", "closed (locked until)", "merged"}

InitTerminal == InitEnv(Healthy) /\ InitIdleQueue

\* No handler is running and no webhook is queued.
Quiet ==
    /\ \A p \in Procs : proc[p].pc = "idle"
    /\ whTask = NoTask
    /\ wq = <<>>

\* The states a ticket can be in when its thread is created.
CreateStates ==
    {"open", "closed", "closed (locked until)", "pending close", "waiting for reply"}

\* Thread creation: the ticket takes its state while it is untracked and keeps
\* it; then webhooks and reconciliation passes take turns, with healthy
\* collaborators.
NextCreate ==
    \/ \E st \in CreateStates : Quiet /\ mapping = NoMapping /\ RemoteSetState(st)
    \/ Deliver(FreshId)
    \/ proc["recon"].pc = "idle" /\ StartTask
    \/ WebhookGetTicket
    \/ \E p \in Procs : CreateThread(p)
    \/ WebhookClose
    \/ WebhookHideNew
    \/ WebhookState
    \/ \E p \in Procs : SyncFetch(p)
    \/ whTask = NoTask /\ ReconStart
    \/ ReconTicket
    \/ ReconState
    \/ ReconCloseLoop

SpecCreate == InitTerminal /\ [][NextCreate]_vars

\* A step of a reconciliation pass on a listed ticket that stays open.
CatchUpSteps ==
    \/ ReconTicket
    \/ CreateThread("recon")
    \/ SyncFetch("recon")
    \/ SyncSend("recon")
    \/ ReconState
    \/ ReconCloseLoop

\* Articles arrive on an open ticket and no webhook is ever delivered:
\* reconciliation alone, with healthy collaborators.
NextCatchUp ==
    \/ \E sender \in {"Customer", "System"} : RemoteNewArticle(sender)
    \/ ReconStart
    \/ CatchUpSteps

\* setInterval keeps starting passes and the event loop runs every
\* continuation that is ready.
SpecCatchUp ==
    /\ InitTerminal
    /\ [][NextCatchUp]_vars
    /\ WF_vars(ReconStart)
    /\ WF_vars(CatchUpSteps)

\* Reconciliation alone, with healthy collaborators, on a ticket that leaves
\* the open state.
NextTerminal ==
    \/ \E st \in TerminalStates : RemoteSetState(st)
    \/ Tick
    \/ ReconStart
    \/ ReconSteps

\* setInterval keeps starting passes; the event loop runs every continuation
\* that is ready; time passes.
SpecTerminal ==
    /\ InitTerminal
    /\ [][NextTerminal]_vars
    /\ WF_vars(ReconStart)
    /\ WF_vars(ReconSteps)
    /\ WF_vars(Tick)

\* One /close command on a ticket whose thread a webhook created, and the
\* webhooks (each a new delivery) that follow it; no reconciliation pass.
NextClose ==
    \/ Deliver(FreshId)
    \/ StartTask
    \/ WebhookGetTicket
    \/ CreateThread("wh")
    \/ WebhookState
    \/ WebhookClose
    \/ Verify("wh")
    \/ Reopen("wh")
    \/ SyncFetch("wh")
    \/ CloseCommand
    \/ CloseUpdate
    \/ CloseStore
    \/ CloseEdit

SpecClose == InitSync /\ [][NextClose]_vars

\* The start-up pass and the periodic sync timer, passes taken as a whole.
NextTimer ==
    \/ StartupSync
    \/ StartupEnd
    \/ TimerTick
    \/ TimerPassEnd

SpecTimer == InitSync /\ [][NextTimer]_vars

\* One article with attachments on its way to the thread.
NextAttach ==
    \/ AttachBegin
    \/ AttachNext
    \/ AttachDownload
    \/ AttachSend

SpecAttach == InitSync /\ [][NextAttach]_vars

\* The webhook endpoint and the queue task behind it.
NextGate ==
    \/ Request
    \/ StartTask
    \/ WebhookGetTicket
    \/ CreateThread("wh")
    \/ WebhookState
    \/ SyncFetch("wh")

SpecGate == InitSync /\ [][NextGate]_vars

\* The health monitor and the remote system going down and coming back.
NextHealth ==
    \/ RemoteDown
    \/ RemoteUp
    \/ HealthTick
    \/ ProbeEnd
    \/ AlertEnd
    \/ RecoveryEnd

SpecHealth == InitSync /\ [][NextHealth]_vars

\* Thread visibility: state changes by remote users and by /state, webhooks,
\* reconciliation passes and member operations in flight.
NextVis ==
    \/ \E state \in VisStates : VisRemoteSetState(state)
    \/ \E name \in VisStates : VisCommand(name)
    \/ Tick
    \/ VisWebhook
    \/ VisRecon
    \/ VisCreate
    \/ VisEnsure
    \/ VisState
    \/ VisVerify
    \/ VisReopen
    \/ VisClose
    \/ VisHideRemove
    \/ VisHideArchive
    \/ VisShowEdit
    \/ VisShowAdd
    \/ VisCloseLoop
    \/ VisCloseVerify
    \/ VisDone
    \/ LandAdd
    \/ LandRemove

SpecVis == InitSync /\ [][NextVis]_vars

\* Thread names: one title change, webhook tasks and reconciliation passes.
NextRename ==
    \/ \E title \in Titles : RenRemoteTitle(title)
    \/ \E p \in {"wh", "recon"} : RenRead(p)
    \/ \E p \in {"wh", "recon"} : RenCheck(p)
    \/ \E p \in {"wh", "recon"} : RenCall(p)

SpecRename == InitSync /\ [][NextRename]_vars

\* Ledger retention: articles arrive and are replicated while the days pass
\* and the maintenance timer prunes the ledger.
NextPrune ==
    \/ PruneNewArticle
    \/ PruneDay
    \/ \E a \in 1..MaxArticles : PruneSyncTurn(a)
    \/ pruneSyncedArticles

SpecPrune == InitSync /\ [][NextPrune]_vars

\* Calls to the chat platform from thread lifecycle, replication,
\* reconciliation and the health monitor.
NextEgress ==
    \/ EgressAdd
    \/ EgressStart
    \/ EgressEnd
    \/ AlertSend
    \/ AlertSent

SpecEgress == InitSync /\ [][NextEgress]_vars

\* Per-ticket tasks and a shutdown signal.
NextShutdown ==
    \/ \E t \in Tickets : ShutTaskStart(t)
    \/ \E t \in Tickets : ShutTaskStep(t)
    \/ ShutSignal
    \/ ShutServerClosed
    \/ ShutExit

SpecShutdown == InitSync /\ [][NextShutdown]_vars

\* Messages of people and bots, replication of remote articles to the ticket
\* thread, and the message event handler.
NextChat ==
    \/ \E m \in Messages : ChatWrite(m)
    \/ ChatRemoteArticle
    \/ \E mapped \in BOOLEAN : ChatReplicate(mapped)
    \/ OnMessageCreate

SpecChat == InitSync /\ [][NextChat]_vars

\* Reconciliation alone on a ticket whose state changes, with a remote API
\* that may fail on any call.
NextListing ==
    \/ \E st \in LifeStates : RemoteSetState(st)
    \/ Tick
    \/ ReconList
    \/ CreateThread("recon")
    \/ SyncFetch("recon")
    \/ ReconTicket
    \/ ReconState
    \/ ReconCloseLoop
    \/ ReconCloseVerify
    \/ ReconClose

SpecListing == InitHeal /\ [][NextListing]_vars

\* ---------------------------------------------------------------------------
\* Per-ticket queue (queue/index.ts) and its callers
\* ---------------------------------------------------------------------------

\* new PQueue({ concurrency: 1 })
QueueConcurrency == 1

OpKinds == {"webhook", "forward", "command", "recon"}

\* Which entry points wrap their work in enqueueForTicket: the webhook route and
\* the thread-message handler do; the slash-command handlers (handleClose ...)
\* and syncAllTickets call the services directly.
UsesQueueForwardOnly(kind) == kind = "forward"

UsesQueue(kind) == kind \in {"webhook", "forward"}

OpIds == 1..MaxOps

\* getTicketQueue, mutated: the new queue is never stored in the map.
TicketQueuesAfterGetNoSet(t) == ticketQueues

\* getTicketQueue: the map after the call (a queue is created lazily and stored).
TicketQueuesAfterGet(t) ==
    IF ticketQueues[t] = 0
        THEN [ticketQueues EXCEPT ![t] = nextQueue + 1]
        ELSE ticketQueues

\* getTicketQueue: the queue object returned.
GetTicketQueue(t) ==
    IF ticketQueues[t] = 0 THEN nextQueue + 1 ELSE ticketQueues[t]

\* The queue object that holds operation id (waiting or running), 0 if none.
QueueOf(id) ==
    IF \E q \in OpIds : id \in pqRunning[q] \/ (\E i \in 1..Len(pqQueue[q]) : pqQueue[q][i] = id)
        THEN CHOOSE q \in OpIds :
                id \in pqRunning[q] \/ (\E i \in 1..Len(pqQueue[q]) : pqQueue[q][i] = id)
        ELSE 0

\* An event arrives (a webhook request, a thread message, a slash command, the
\* reconciliation loop reaching the ticket).  Entry points that use the queue
\* call enqueueForTicket: getTicketQueue, then q.add, which starts the task at
\* once when the queue runs fewer than `concurrency` tasks.  The others run
\* their body directly.
Arrive(kind, t) ==
    /\ Len(ops) < MaxOps
    /\ LET id == Len(ops) + 1
           q == GetTicketQueue(t)
           startsNow == Cardinality(pqRunning[q]) < QueueConcurrency /\ pqQueue[q] = <<>>
       IN  /\ UNCHANGED <<mvars, threw>>
           /\ ops' = Append(ops, [kind |-> kind, ticket |-> t, queued |-> UsesQueue(kind)])
           /\ IF UsesQueue(kind)
                THEN /\ ticketQueues' = TicketQueuesAfterGet(t)
                     /\ nextQueue' = IF ticketQueues[t] = 0 THEN nextQueue + 1 ELSE nextQueue
                     /\ IF startsNow
                          THEN /\ pqRunning' = [pqRunning EXCEPT ![q] = @ \cup {id}]
                               /\ pqQueue' = pqQueue
                               /\ opStatus' = Append(opStatus, "running")
                               /\ startOrder' = Append(startOrder, id)
                          ELSE /\ pqQueue' = [pqQueue EXCEPT ![q] = Append(@, id)]
                               /\ pqRunning' = pqRunning
                               /\ opStatus' = Append(opStatus, "queued")
                               /\ startOrder' = startOrder
                ELSE /\ opStatus' = Append(opStatus, "running")
                     /\ startOrder' = Append(startOrder, id)
                     /\ UNCHANGED <<ticketQueues, nextQueue, pqQueue, pqRunning>>

\* The wrapper of enqueueForTicket, mutated: the catch logs and swallows.
EnqueueSettlesSwallowed(outcome) == "done"

\* How the promise returned by enqueueForTicket settles when fn settled with
\* `outcome`: return await fn(), or the catch logs and re-throws.
EnqueueSettles(outcome) == IF outcome = "failed" THEN "failed" ELSE "done"

\* A running operation settles (outcome "done", or "failed" when its body
\* threw: enqueueForTicket logs and re-throws, so the caller sees the error).
\* For a queued task p-queue then runs next(): the head of the queue starts; when
\* nothing waits and nothing runs the queue emits "idle" and the handler
\* installed by getTicketQueue deletes the map entry of the ticket.
Finish(id, outcome) ==
    /\ id \in 1..Len(ops)
    /\ opStatus[id] = "running"
    /\ LET q == QueueOf(id)
           t == ops[id].ticket
       IN  IF q = 0
             THEN /\ opStatus' = [opStatus EXCEPT ![id] = outcome]
                  /\ UNCHANGED <<ticketQueues, nextQueue, pqQueue, pqRunning, startOrder>>
             ELSE IF pqQueue[q] # <<>>
                    THEN LET nxt == Head(pqQueue[q])
                         IN  /\ pqRunning' = [pqRunning EXCEPT ![q] = (@ \ {id}) \cup {nxt}]
                             /\ pqQueue' = [pqQueue EXCEPT ![q] = Tail(@)]
                             /\ opStatus' = [opStatus EXCEPT ![id] = EnqueueSettles(outcome),
                                                              ![nxt] = "running"]
                             /\ startOrder' = Append(startOrder, nxt)
                             /\ UNCHANGED <<ticketQueues, nextQueue>>
                    ELSE /\ pqRunning' = [pqRunning EXCEPT ![q] = @ \ {id}]
                         /\ opStatus' = [opStatus EXCEPT ![id] = EnqueueSettles(outcome)]
                         /\ ticketQueues' = IF pqRunning[q] \ {id} = {}
                                              THEN [ticketQueues EXCEPT ![t] = 0]
                                              ELSE ticketQueues
                         /\ UNCHANGED <<nextQueue, pqQueue, startOrder>>
    /\ threw' = IF outcome = "failed" THEN threw \cup {id} ELSE threw
    /\ UNCHANGED ops
    /\ UNCHANGED mvars

InitQueue ==
    /\ InitMain
    /\ ticketQueues = [t \in Tickets |-> 0]
    /\ pqQueue = [q \in OpIds |-> <<>>]
    /\ pqRunning = [q \in OpIds |-> {}]
    /\ nextQueue = 0
    /\ ops = <<>>
    /\ opStatus = <<>>
    /\ startOrder = <<>>
    /\ threw = {}

NextQueue ==
    \/ \E kind \in OpKinds, t \in Tickets : Arrive(kind, t)
    \/ \E id \in OpIds, outcome \in {"done", "failed"} : Finish(id, outcome)

SpecQueue == InitQueue /\ [][NextQueue]_vars

\* ---------------------------------------------------------------------------
\* Claims about the per-ticket queue
\* ---------------------------------------------------------------------------

Arrived == 1..Len(ops)

\* Operations of ticket t that were handed to enqueueForTicket.
EnqueuedFor(t) == {id \in Arrived : ops[id].ticket = t /\ ops[id].queued}

\* Position of operation id in startOrder, 0 when it has not started.
StartPos(id) ==
    IF \E i \in 1..Len(startOrder) : startOrder[i] = id
        THEN CHOOSE i \in 1..Len(startOrder) : startOrder[i] = id
        ELSE 0

\* Queue objects that hold a task of ticket t, waiting or running.
LiveQueues(t) ==
    {q \in OpIds : \E id \in EnqueuedFor(t) :
        id \in pqRunning[q] \/ (\E i \in 1..Len(pqQueue[q]) : pqQueue[q][i] = id)}

\* C6: tasks enqueued with enqueueForTicket for one ticket run one at a time and
\* start in the order they were enqueued, and at no time do two queue objects
\* hold tasks of one ticket (lazy creation and discard-on-idle included).
C6_QueueSerialFifo ==
    \A t \in Tickets :
        /\ Cardinality({id \in EnqueuedFor(t) : opStatus[id] = "running"}) <= 1
        /\ \A i, j \in EnqueuedFor(t) :
              (i < j /\ StartPos(j) # 0) => (StartPos(i) # 0 /\ StartPos(i) < StartPos(j))
        /\ Cardinality(LiveQueues(t)) <= 1
        /\ \A q \in LiveQueues(t) : ticketQueues[t] = q

\* C6 witness: the ticket's first queue was discarded when it went idle, a second
\* one was created lazily, and a task waits in it behind the running one.
C6_Witness ==
    \E t \in Tickets :
        /\ nextQueue = 2
        /\ \A id \in Arrived : ops[id].ticket = t
        /\ \E id \in Arrived : opStatus[id] \in {"done", "failed"}
        /\ pqRunning[2] # {}
        /\ pqQueue[2] # <<>>

\* C7 as stated: every operation that mutates a ticket (webhook, command,
\* forward, reconciliation fix-up) runs in the ticket's queue, so no two
\* operations are in progress for one ticket at the same time.
C7_Original ==
    \A t \in Tickets :
        Cardinality({id \in Arrived : ops[id].ticket = t /\ opStatus[id] = "running"}) <= 1

\* C7 amended: webhook processing and the forwarding of a thread message run as
\* tasks of the ticket's queue, so no two of those are in progress for one ticket
\* at the same time (slash commands and reconciliation run outside the queue).
C7_QueuedEntryPointsSerial ==
    \A t \in Tickets :
        Cardinality({id \in Arrived :
            /\ ops[id].ticket = t
            /\ ops[id].kind \in {"webhook", "forward"}
            /\ opStatus[id] = "running"}) <= 1

\* C7 witness: a webhook is being processed while a forward of the same ticket
\* waits in the queue and a slash command of that ticket runs beside them.
C7_Witness ==
    \E a, b, c \in Arrived :
        /\ ops[a].ticket = ops[b].ticket /\ ops[b].ticket = ops[c].ticket
        /\ ops[a].kind = "webhook" /\ opStatus[a] = "running"
        /\ ops[b].kind = "forward" /\ opStatus[b] = "queued"
        /\ ops[c].kind = "command" /\ opStatus[c] = "running"

\* ---------------------------------------------------------------------------
\* Claims about webhook dedup and article replication (SpecSync)
\* ---------------------------------------------------------------------------

\* The deliveries (positions in attempts) that carried delivery id d.
DeliveriesOf(d) == {k \in DOMAIN attempts : attempts[k].d = d}

\* C1 as stated: among the webhook deliveries that carry one delivery id, at
\* most one mutates the ticket's thread, mapping or article ledger, failed
\* attempts included.
C1_Original ==
    \A d \in DeliveryIds :
        Cardinality({k \in DeliveriesOf(d) : attempts[k].mutated}) <= 1

\* C1 amended: among the deliveries that carry one delivery id at most one is
\* processed to the end without throwing; every delivery of that id handled
\* after it is discarded as a duplicate, and a discarded delivery mutates
\* nothing.  (A delivery whose processing threw has its id unmarked: it may have
\* mutated already, and the next delivery of the id is processed again.)
C1_DedupAfterCompleted ==
    \A d \in DeliveryIds :
        /\ Cardinality({k \in DeliveriesOf(d) : attempts[k].outcome = "ok"}) <= 1
        /\ \A k \in DeliveriesOf(d) : attempts[k].outcome = "skipped" => ~attempts[k].mutated
        /\ \A k, j \in DeliveriesOf(d) :
              (k < j /\ attempts[k].outcome = "ok")
                  => (attempts[j].outcome \in {"pending", "skipped"} /\ ~attempts[j].mutated)

\* C1 witness: a delivery was processed to the end and mutated the ticket, and a
\* later delivery with the same id was discarded.
C1_Witness ==
    \E k, j \in DOMAIN attempts :
        /\ k < j
        /\ attempts[k].d = attempts[j].d
        /\ attempts[k].outcome = "ok" /\ attempts[k].mutated
        /\ attempts[j].outcome = "skipped"

\* The articles posted in full into thread t, in posting order.
RECURSIVE PostedTo(_, _)
PostedTo(t, list) ==
    IF list = <<>> THEN <<>>
    ELSE IF Head(list).thread = t /\ Head(list).whole
           THEN <<Head(list).article>> \o PostedTo(t, Tail(list))
           ELSE PostedTo(t, Tail(list))

\* C2: in every thread the remote article ids posted (in full) are strictly
\* increasing over the whole run.
C2_PostsStrictlyIncreasing ==
    \A t \in DOMAIN threads :
        LET seq == PostedTo(t, posts)
        IN  \A i, j \in DOMAIN seq : i < j => seq[i] < seq[j]

\* C3: each remote article is posted (in full) into the ticket's thread at most
\* once, whatever the interleaving of webhook syncs and catch-ups.
C3_PostedAtMostOnce ==
    \A t \in DOMAIN threads :
        LET seq == PostedTo(t, posts)
        IN  \A i, j \in DOMAIN seq : seq[i] = seq[j] => i = j

\* The ids of the ticket's remote articles.
ArticleIds == 1..Len(remoteArticles)

\* C4: an article that has a ledger row when syncAllUnsyncedArticles examines it
\* is never the one it goes on to send, and a run of the sync that finds every
\* remote article ledgered posts nothing and leaves the ledger unchanged.
C4_SyncIdempotent ==
    /\ [](\A p \in Procs : proc[p].pc = "send" => ~proc[p].curWasSynced)
    /\ [][\A p \in Procs :
            (/\ proc[p].pc = "fetch"
             /\ proc'[p].pc # "fetch"
             /\ ArticleIds \subseteq ledger)
                => (posts' = posts /\ ledger' = ledger /\ proc'[p].pc # "send")]_vars

\* C4 witness: a catch-up that ran after articles had been posted and ledgered
\* found nothing left to do and returned to the pass.
C4_Witness ==
    /\ proc["recon"].clean
    /\ proc["recon"].pc = "state"
    /\ \E i \in DOMAIN posts : posts[i].whole /\ posts[i].article \in ledger
    /\ ArticleIds \subseteq ledger

\* C5: an article created by forwarding a thread message is never posted into
\* a thread, not even by a catch-up that runs while the forward is in progress.
C5_ForwardedNeverPosted ==
    \A i \in DOMAIN posts : posts[i].whole => posts[i].article \notin forwarded

\* C8: at most one thread is ever created for the ticket (and so no two mappings
\* can hold the same thread id).
C8_OneThreadPerTicket == Len(threads) <= 1

\* ---------------------------------------------------------------------------
\* Claims about the thread lifecycle (SpecLife)
\* ---------------------------------------------------------------------------

\* Thread t goes from locked to unlocked in this step.
Unlocks(t) == t \in DOMAIN threads /\ threads[t].locked /\ ~threads'[t].locked

\* C9: in a reconciliation pass that read a mapping in a closed state while the
\* listing reports a non-closed one: when the mapping was updated less than 120
\* seconds ago the pass goes neither to the point read nor to the reopen, leaves
\* every thread as it is and leaves the closed state stored; otherwise the pass
\* unlocks a thread only in its reopen step, reached after a point read of this
\* pass answered with a non-closed state.
C9_ReconReopenGrace ==
    /\ [](LET pr == proc["recon"]
          IN  /\ pr.graceSkip => pr.pc \in {"closeLoop", "idle"}
              /\ pr.pc = "reopen" => (pr.fresh # "none" /\ ~isClosedState(pr.fresh)))
    /\ [][LET pr == proc["recon"]
              age == now - pr.map.updated_at
          IN  /\ (pr.pc = "state" /\ proc'["recon"] # pr /\ isClosedState(pr.map.state)
                     /\ ~isClosedState(pr.st) /\ age < 120)
                    => (/\ threads' = threads
                        /\ mapping'.state = pr.map.state
                        /\ proc'["recon"].graceSkip
                        /\ proc'["recon"].pc \notin {"verify", "reopen"})
              /\ (pr.graceSkip /\ proc'["recon"] # pr)
                    => (threads' = threads /\ mapping' = mapping)
              /\ (proc'["recon"] # pr /\ \E t \in DOMAIN threads : Unlocks(t))
                    => (pr.pc = "reopen" /\ ~isClosedState(pr.fresh))]_vars

\* C9 witness: a pass met the closed mapping inside the grace window while the
\* listing said open; the thread is still locked and the stored state closed.
C9_Witness ==
    /\ proc["recon"].graceSkip
    /\ isClosedState(mapping.state)
    /\ ~isClosedState(proc["recon"].st)
    /\ threads[mapping.thread_id].locked
    /\ threads[mapping.thread_id].archived

\* C10: a handler (webhook task or reconciliation pass) is about to call
\* reopenTicketThread only when the point read it made after detecting the
\* closed -> non-closed difference answered with a non-closed state; and the
\* step in which that point read answers with a closed state leaves every
\* thread as it is and stores that closed state.
C10_ReopenOnlyAfterPointRead ==
    /\ [](\A p \in Procs :
            proc[p].pc = "reopen" => (proc[p].fresh # "none" /\ ~isClosedState(proc[p].fresh)))
    /\ [][\A p \in Procs :
            /\ (\E t \in DOMAIN threads : Unlocks(t)) => (\E q \in Procs : proc[q].pc = "reopen")
            /\ (proc[p].pc = "verify" /\ proc'[p].pc # "verify" /\ isClosedState(proc'[p].fresh))
                  => (/\ threads' = threads
                      /\ mapping'.state = proc'[p].fresh
                      /\ proc'[p].pc # "reopen")]_vars

\* C10 witness: the webhook task's point read answered closed although the first
\* read said open; the thread is still locked and archived and the stored state
\* is the closed state read.
C10_Witness ==
    /\ proc["wh"].fresh # "none"
    /\ isClosedState(proc["wh"].fresh)
    /\ ~isClosedState(proc["wh"].st)
    /\ mapping.state = proc["wh"].fresh
    /\ threads[mapping.thread_id].locked
    /\ threads[mapping.thread_id].archived

\* Thread t goes from unlocked to locked in this step.
Locks(t) == t \in DOMAIN threads /\ ~threads[t].locked /\ threads'[t].locked

\* C11: a reconciliation pass locks a thread only in its close step, and it is
\* at the point read or the close step of the close loop only for a mapping
\* that is missing from the listing and was created and last updated at least
\* 120 seconds before the loop read it; the close step is reached only after a
\* point read of this pass answered with a closed state (a failed point read or
\* the missing listing entry alone leads to no close).
C11_ReconCloseVerified ==
    /\ [](LET pr == proc["recon"]
          IN  /\ pr.pc \in {"closeVerify", "closing"}
                    => (/\ ~pr.listed
                        /\ now - pr.map.created_at >= 120
                        /\ now - pr.map.updated_at >= 120)
              /\ pr.pc = "closing" => isClosedState(pr.fresh))
    /\ [][(proc'["recon"] # proc["recon"] /\ \E t \in DOMAIN threads : Locks(t))
            => (proc["recon"].pc = "closing" /\ isClosedState(proc["recon"].fresh))]_vars

\* C11 witness: no webhook was ever delivered, the pass created the thread and,
\* two minutes later with the ticket closed remotely and gone from the listing,
\* a pass locked and archived it and the closed state is stored.
C11_Witness ==
    /\ attempts = <<>>
    /\ mapping # NoMapping
    /\ threads[mapping.thread_id].locked
    /\ threads[mapping.thread_id].archived
    /\ isClosedState(mapping.state)

\* C12: once /close has closed the ticket (remote update, stored state and
\* thread edit done) every webhook processed afterwards, whatever state it
\* reads, leaves the thread locked and archived and the stored state closed
\* (looked at whenever no webhook task is in progress).
C12_CloseSurvivesStaleWebhook ==
    (cmdClosed = "yes" /\ whTask = NoTask)
        => (/\ threads[mapping.thread_id].locked
            /\ threads[mapping.thread_id].archived
            /\ isClosedState(mapping.state))

\* ---------------------------------------------------------------------------
\* Claims about the periodic sync timer (SpecTimer)
\* ---------------------------------------------------------------------------

\* C13: at most one execution of syncAllTickets is in progress at any time; a
\* firing of the timer starts a pass only when none is in progress (the
\* start-up pass is over before the timer exists); and whenever no pass is in
\* progress the guard is clear, whether the last pass resolved or rejected.
C13_OnePassAtATime ==
    /\ [](/\ timer.passes <= 1
          /\ (timer.main = "startup" => ~timer.syncing /\ timer.ticks = 0)
          /\ (timer.main = "timer" /\ timer.passes = 0 => ~timer.syncing)
          /\ (timer.main = "timer" /\ timer.passes = 1 => timer.syncing))
    /\ [][timer'.passes > timer.passes => timer.passes = 0]_vars
    /\ [][(timer.main = "timer" /\ timer'.passes < timer.passes) => ~timer'.syncing]_vars

\* A firing was skipped because of a running pass, a pass rejected, and a
\* later firing started a new pass.
C13_Witness ==
    /\ timer.skipped > 0
    /\ timer.failed > 0
    /\ timer.passes = 1
    /\ timer.ticks - timer.skipped > timer.failed

\* ---------------------------------------------------------------------------
\* Claims about attachments (SpecAttach)
\* ---------------------------------------------------------------------------

\* C14: the files uploaded with a posted article never add up to more bytes
\* than limits.totalBytes, whatever sizes were declared for them.
C14_UploadWithinBudget ==
    attLoop.pc = "posted"
        => SumActual(attLoop.files, attLoop.attachments) <= attLoop.limits.totalBytes

\* The declared size marks the file as a tiny placeholder.
IsTinyPlaceholder(size) == AttSize(size) < TINY_PLACEHOLDER /\ AttSize(size) > 0

\* C15: every attachment of a posted article, tiny placeholders apart, was
\* uploaded with it or has a link in its content.
C15_NoAttachmentOmitted ==
    attLoop.pc = "posted"
        => \A k \in DOMAIN attLoop.files :
              \/ IsTinyPlaceholder(attLoop.files[k].size)
              \/ k \in Range(attLoop.attachments)
              \/ k \in Range(attLoop.largeFileLinks)

\* C16: a file declared larger than the per-file cap is never downloaded, and
\* a posted article carries a link for it.
C16_LargeFileLinked ==
    \A k \in DOMAIN attLoop.files :
        AttSize(attLoop.files[k].size) > attLoop.limits.perFileBytes
            => /\ k \notin attLoop.fetched
               /\ attLoop.pc = "posted" => k \in Range(attLoop.largeFileLinks)

\* ---------------------------------------------------------------------------
\* Claims about errors of queued tasks (SpecQueue)
\* ---------------------------------------------------------------------------

\* Tasks of ticket t waiting in a queue object.
WaitingFor(t) == {id \in EnqueuedFor(t) : opStatus[id] = "queued"}

\* C17: when a task enqueued with enqueueForTicket throws, the promise handed
\* to its caller rejects; the tasks of the ticket are not held up by it (a
\* task waits only behind a running task of the same ticket, and when a task
\* fails with others waiting, the first of them starts in the same step) and
\* they start in the order they were enqueued, whatever failed before them.
C17_ThrowRethrownQueueGoesOn ==
    /\ [](\A t \in Tickets :
            /\ \A id \in EnqueuedFor(t) :
                  /\ id \in threw => opStatus[id] = "failed"
                  /\ opStatus[id] = "failed" => id \in threw
            /\ WaitingFor(t) # {}
                  => \E r \in EnqueuedFor(t) :
                        opStatus[r] = "running" /\ \A w \in WaitingFor(t) : r < w
            /\ \A i, j \in EnqueuedFor(t) :
                  (i < j /\ StartPos(j) # 0) => (StartPos(i) # 0 /\ StartPos(i) < StartPos(j)))
    /\ [][\A t \in Tickets : \A id \in EnqueuedFor(t) :
            (id \in threw' \ threw /\ WaitingFor(t) # {})
                => LET nxt == CHOOSE w \in WaitingFor(t) : \A v \in WaitingFor(t) : w <= v
                   IN  opStatus'[nxt] = "running"]_vars

\* A task threw while a later task of the ticket waited, and that task and
\* one enqueued after the failure both ran to their end.
C17_Witness ==
    \E t \in Tickets : \E a, b, c \in EnqueuedFor(t) :
        /\ a < b /\ b < c
        /\ a \in threw
        /\ opStatus[b] = "done"
        /\ opStatus[c] = "done"
        /\ StartPos(a) < StartPos(b) /\ StartPos(b) < StartPos(c)

\* ---------------------------------------------------------------------------
\* Claims about the webhook endpoint (SpecGate)
\* ---------------------------------------------------------------------------

\* The signature header of the request is missing or is not the HMAC-SHA1 of
\* the raw body under the shared secret (with or without the sha1= prefix).
BadSignature(r) ==
    \/ r.header.kind \in {"none", "empty"}
    \/ r.raw = NoBody
    \/ r.header.sig # HmacSha1Hex(ZAMMAD_WEBHOOK_SECRET, r.raw)

\* What a request must leave alone to have had no effect.
gatedvars == <<wq, whTask, attempts, dbvars, chatvars, proc>>

C19_AlertOncePerOutage ==
    /\ [](\A o \in Outages : health.alerts[o] <= 1)
    /\ [][\A o \in Outages :
            health'.decided[o] > health.decided[o]
                => health'.failedRun >= FAILURE_THRESHOLD]_vars

\* C20: after one outage at most one recovery notice goes out, and none goes
\* out after an outage in which no probe decided to alert.
C20_RecoveryOncePerOutage ==
    \A o \in Outages :
        /\ health.recoveries[o] <= 1
        /\ health.recoveries[o] > 0 => health.decided[o] > 0

\* ---------------------------------------------------------------------------
\* Claims about failed webhook processing and retries (SpecSync)
\* ---------------------------------------------------------------------------

\* C21: when the processing of a delivery throws, its id has no row in
\* webhook_dedup once handleWebhook has finished, and a later delivery of the
\* id is discarded as a duplicate only if a delivery of the id before it was
\* processed to the end.
C21_FailedDeliveryRetried ==
    /\ [](\A j \in DOMAIN attempts :
            attempts[j].outcome = "skipped"
                => \E i \in DeliveriesOf(attempts[j].d) :
                      i < j /\ attempts[i].outcome = "ok")
    /\ [][\A k \in DOMAIN attempts :
            (attempts[k].outcome = "pending" /\ attempts'[k].outcome = "failed")
                => ~(attempts[k].d \in dedup')]_vars

\* A delivery failed and the next delivery with its id was processed to the
\* end.
C21_Witness ==
    \E k, j \in DOMAIN attempts :
        /\ k < j
        /\ attempts[k].d = attempts[j].d
        /\ attempts[k].outcome = "failed"
        /\ attempts[j].outcome = "ok"

\* Handler p was sending an article and the send failed in this step: no
\* complete post was added.
SendFailed(p) ==
    /\ proc[p].pc = "send"
    /\ proc'[p] # proc[p]
    /\ posts' = posts \/ ~posts'[Len(posts')].whole

\* C22: when the post of an article fails, the ledger is left as it was and
\* the run of syncAllUnsyncedArticles ends in the same step, so it posts and
\* ledgers nothing behind that article; and a run only ever sends the lowest
\* article without a ledger row, so the next run starts with the one that
\* failed.
C22_FailedPostStopsPass ==
    /\ [](\A p \in Procs :
            proc[p].pc = "send" => \A b \in 1..(proc[p].cur - 1) : b \in ledger)
    /\ [][\A p \in Procs :
            SendFailed(p) => (/\ ledger' = ledger
                              /\ proc'[p].pc # "send"
                              /\ proc'[p].cur = 0
                              /\ proc'[p].arts = <<>>)]_vars

\* The post of an article broke off after its first chunk, and a later run
\* posted the same article in full.
C22_Witness ==
    \E i, j \in DOMAIN posts :
        /\ i < j
        /\ posts[i].article = posts[j].article
        /\ ~posts[i].whole
        /\ posts[j].whole
        /\ posts[j].article \in ledger

\* ---------------------------------------------------------------------------
\* Claims about healing by reconciliation (SpecHeal)
\* ---------------------------------------------------------------------------

\* The thread of the mapping matches the class of the ticket's remote state:
\* locked and archived for a closed one, neither for an open one.
ThreadMatches ==
    /\ mapping # NoMapping
    /\ LET th == threads[mapping.thread_id]
       IN  IF isClosedState(remoteState)
               THEN th.locked /\ th.archived
               ELSE ~th.locked /\ ~th.archived

\* C23: once the collaborators are healthy and the remote state stays as it
\* is, reconciliation passes bring the thread to the class of the remote
\* state, whatever close or reopen effect failed before.
C23_MissedEffectHealed == calm.on ~> ThreadMatches

\* ---------------------------------------------------------------------------
\* Claims about the reopen grace window (SpecLife)
\* ---------------------------------------------------------------------------

\* The pass skips the reopen in this step because the stored closed state is
\* younger than the grace window, while the ticket is really not closed; its
\* thread was closed and no webhook is being processed.
GraceSkips ==
    /\ proc["recon"].pc = "state"
    /\ ~proc["recon"].graceSkip
    /\ proc'["recon"].graceSkip
    /\ ~isClosedState(remoteState)
    /\ whTask = NoTask
    /\ threads[mapping.thread_id].locked

\* C24: a pass inside the reopen grace window leaves the start of the window
\* (the mapping's updated_at) where it was, so the window elapses 120 s after
\* the local close however many passes run inside it, and the pass that
\* follows performs the point read and reopens the thread.
C24_GraceWindowElapses ==
    [][GraceSkips => mapping'.updated_at = mapping.updated_at]_vars

\* ---------------------------------------------------------------------------
\* Claims about tickets that left the open state (SpecTerminal)
\* ---------------------------------------------------------------------------

\* The ticket is tracked, its remote state is not open and will not change any
\* more, its mapping is older than the grace window, and no pass is running.
SettledNotOpen ==
    /\ mapping # NoMapping
    /\ remoteState # "open"
    /\ nChanges = MaxChanges
    /\ ~InCloseGrace(now - mapping.created_at, now - mapping.updated_at)
    /\ proc["recon"].pc = "idle"

\* The thread of the mapping is locked and archived.
ThreadClosed ==
    /\ mapping # NoMapping
    /\ threads[mapping.thread_id].locked
    /\ threads[mapping.thread_id].archived

\* C25: a tracked ticket whose remote state is closed, a closed variant or
\* merged, and stays so, has its thread locked and archived by some pass once
\* the mapping is older than the grace window.
C25_NotOpenThreadClosed == SettledNotOpen ~> ThreadClosed

\* ---------------------------------------------------------------------------
\* Claims about the periodic article catch-up (SpecCatchUp)
\* ---------------------------------------------------------------------------

\* Article a has a complete post in the ticket's thread.
Posted(a) ==
    \E i \in DOMAIN posts :
        posts[i].article = a /\ posts[i].whole /\ posts[i].thread = mapping.thread_id

\* Article a exists on the tracked ticket and is none of the system-generated
\* ones, which are ledgered without a post.
Postable(a) ==
    /\ mapping # NoMapping
    /\ a \in DOMAIN remoteArticles
    /\ remoteArticles[a] # "System"

\* C26: with no webhook delivered, an article of a listed ticket that has a
\* thread is eventually posted to the thread by reconciliation (a
\* system-generated one is eventually ledgered instead); and a pass catches up
\* the articles of a listed ticket with a thread exactly when the count of
\* completed passes is a multiple of ARTICLE_CATCHUP_INTERVAL.
C26_CatchUpPosts ==
    /\ \A a \in 1..MaxArticles : Postable(a) ~> Posted(a)
    /\ \A a \in 1..MaxArticles :
          (mapping # NoMapping /\ a \in DOMAIN remoteArticles) ~> (a \in ledger)
    /\ [][(proc["recon"].pc = "ticket" /\ proc'["recon"].pc # "ticket"
              /\ mapping # NoMapping)
            => (proc'["recon"].pc = "fetch"
                    <=> syncCycleCount % ARTICLE_CATCHUP_INTERVAL = 0)]_vars

\* Both articles of the ticket arrived after the thread was created and both
\* are posted, in the order of their ids, though no webhook was delivered.
C26_Witness ==
    /\ attempts = <<>>
    /\ Len(posts) = 2
    /\ posts[1].article = 1 /\ posts[1].whole
    /\ posts[2].article = 2 /\ posts[2].whole

\* ---------------------------------------------------------------------------
\* Claims about thread creation for a closed or hidden ticket (SpecCreate)
\* ---------------------------------------------------------------------------

\* C28: the ticket had its state before its thread was created and kept it;
\* once the creating handler is over, the thread of a closed ticket is locked
\* and archived and the thread of a "waiting for reply" ticket is archived.
C28_CreatedInClass ==
    (Quiet /\ mapping # NoMapping)
        => LET th == threads[mapping.thread_id]
           IN  /\ isClosedState(remoteState) => (th.locked /\ th.archived)
               /\ remoteState = "waiting for reply" => th.archived

\* ---------------------------------------------------------------------------
\* Claims about role members and hidden states (SpecVis)
\* ---------------------------------------------------------------------------

\* No handler runs and no member operation is in flight.
VisQuiet == vis.h = "none" /\ vis.adds = 0 /\ vis.removes = 0

\* C27: once a change to a closed state has been handled and every member
\* operation that was not awaited has taken effect, the thread is locked and
\* archived and the role member is not in it, also when the closing handler
\* created the thread.  (The closed state is one that the open listing drops;
\* the listed variant is the subject of C25.)
C27_ClosedThreadEmpty ==
    (VisQuiet /\ vis.stored \in CLOSED_STATES \cap ListClosedStates)
        => (vis.locked /\ vis.archived /\ ~vis.member)

\* The handler that is about to finish found the tracked ticket changed from
\* state old to state new and stored the new state.
Handled(old, new) ==
    /\ vis.pc = "done"
    /\ vis.old = old
    /\ vis.new = new
    /\ vis.stored = new

\* C29: when a handler has dealt with a change of a tracked ticket from a
\* state that is not hidden to a hidden one, the role member is not in the
\* thread, and the thread is archived exactly when the new state is "waiting
\* for reply".
C29_HiddenThreadEmptied ==
    \A old \in VisStates \ HIDDEN_STATES, new \in HIDDEN_STATES :
        Handled(old, new)
            => (~vis.member /\ (vis.archived <=> new = "waiting for reply"))

\* The running handler read the tracked ticket in state new while the stored
\* state was a hidden one.
Leaving(new) ==
    /\ vis.h # "none"
    /\ vis.old \in HIDDEN_STATES
    /\ vis.new = new

\* A step of the running handler puts the role member into the thread, or
\* starts an add without awaiting it.
ReAdds ==
    /\ vis'.h = vis.h
    /\ \/ vis'.adds > vis.adds
       \/ ~vis.member /\ vis'.member /\ vis'.adds = vis.adds

\* A step unarchives the thread.
Unarchives == vis.archived /\ ~vis'.archived

\* C30: when a handler has dealt with a change of a tracked ticket from a
\* hidden state to one that is neither hidden nor closed, the thread is not
\* archived and the role member is in it; while a handler deals with a change
\* from a hidden state to a closed one, no step of it unarchives the thread or
\* adds the role member.
C30_HiddenThreadShown ==
    /\ [](\A old \in HIDDEN_STATES,
             new \in VisStates \ (HIDDEN_STATES \cup CLOSED_STATES) :
               Handled(old, new) => (~vis.archived /\ vis.member))
    /\ [][\A new \in CLOSED_STATES : Leaving(new) => (~ReAdds /\ ~Unarchives)]_vars

\* C31: the rename calls made to the chat platform are never more than the
\* title changes that changed the built name: one title change, one rename.
C31_OneRenamePerChange == ren.calls <= ren.changes

\* The files whose download was tried and threw.
FailedDownloads == attLoop.fetched \ Range(attLoop.attachments)

\* C32: a posted article whose attachment downloads failed in part carries a
\* link for every file whose download failed (the files that did download
\* are uploaded with it).
C32_FailedFileLinked ==
    attLoop.pc = "posted"
        => \A k \in FailedDownloads : k \in Range(attLoop.largeFileLinks)

\* C33: no download made for an article took in more bytes than
\* limits.downloadCapBytes, whatever size was declared for the file.
C33_DownloadWithinCap ==
    \A k \in Range(attLoop.attachments) :
        attLoop.files[k].actual <= attLoop.limits.downloadCapBytes

\* C34: no article of the tracked ticket is posted to the thread more than
\* once, also when its ledger row has been pruned.
C34_NoRepostAfterPrune == \A a \in 1..MaxArticles : kept.posted[a] <= 1

\* C35: the calls to the chat platform in flight, made by tasks of the egress
\* queue or not, are never more than the queue's concurrency.
C35_EgressBounded == egress.running + egress.direct <= DISCORD_CONCURRENCY

\* C36: no per-ticket task is cut off by the shutdown, and the store is open
\* while a task is in flight.
C36_TasksFinish ==
    \A t \in Tickets :
        /\ shut.task[t] # "aborted"
        /\ InFlight(t) => shut.db = "open"

\* C37: while no webhook task, command or reconciliation pass is in progress
\* for the tracked ticket, its stored state is a closed one exactly when its
\* thread is locked and archived.
C37_StoredStateMatchesThread ==
    (Quiet /\ cmd.pc = "idle" /\ mapping # NoMapping)
        => LET th == threads[mapping.thread_id]
           IN  isClosedState(mapping.state) <=> (th.locked /\ th.archived)

\* C38: after a pass whose listing failed on some page, and until the next
\* pass, the mapping, the threads and the cycle counter are what they were
\* when the listing failed, and the pass is over.
C38_FailedListingChangesNothing ==
    listing.failed
        => /\ listing.snap = <<mapping, threads, syncCycleCount>>
           /\ proc["recon"].pc = "idle"

\* The listing of a pass failed for a tracked ticket that was closed in the
\* remote system and whose thread is still open, outside the grace windows: a
\* pass that had gone on would have acted.
C38_Witness ==
    /\ listing.failed
    /\ mapping # NoMapping
    /\ ~isClosedState(mapping.state)
    /\ remoteState = "closed"
    /\ ~InCloseGrace(now - mapping.created_at, now - mapping.updated_at)

\* C39: every message handed to forwardToZammad was written in the tracked
\* ticket thread by an author who is not a bot and has an actor mapping; the
\* bot's own posts are never among them.
C39_OnlyAgentMessagesForwarded ==
    \A m \in chat.forwards :
        ~m.bot /\ ~m.self /\ m.channel = "ticket" /\ m.mapped

\* An agent's message was forwarded, and a post of the bot itself in the
\* ticket thread, with a mapping for the bot's own id, was handled.
C39_Witness ==
    /\ chat.forwards # {}
    /\ \E m \in chat.handled : m.self /\ m.mapped /\ m.channel = "ticket"

====
